---------------------------- MODULE Spec2Model ----------------------------
(***************************************************************************)
(* Model of the mcp-yeoman server: the tool-call handler, the generator    *)
(* runner (runYeomanGenerator), the option introspection                   *)
(* (getGeneratorOptions), the help parser and the requirement checker.     *)
(*                                                                         *)
(* Strings that the code inspects character by character (help text,       *)
(* generator output, option names) are sequences of one-character strings. *)
(* Strings that the code only passes around (generator names, application  *)
(* names, error labels) are TLA+ strings.                                  *)
(***************************************************************************)
EXTENDS Integers, Sequences, FiniteSets, TLC

(***************************************************************************)
(* Characters and character classes of the regular expressions in the code *)
(***************************************************************************)
LowerLetters ==
  {"a", "b", "c", "d", "e", "f", "g", "h", "i", "j", "k", "l", "m",
   "n", "o", "p", "q", "r", "s", "t", "u", "v", "w", "x", "y", "z"}

UpperLetters ==
  {"A", "B", "C", "D", "E", "F", "G", "H", "I", "J", "K", "L", "M",
   "N", "O", "P", "Q", "R", "S", "T", "U", "V", "W", "X", "Y", "Z"}

Digits == {"0", "1", "2", "3", "4", "5", "6", "7", "8", "9"}

WordChars == LowerLetters \cup UpperLetters \cup Digits \cup {"_"}

SpaceChars == {" ", "\n", "\t", "\r"}

\* Membership of a character in a class of the regular expressions:
\* "s" is \s, "w" is \w, "S" is \S, "any" is [^], "notnl" is [^\n] (and "."),
\* "ws" is [\w\s], "d" is \d, "notrbr" is [^\]], "lower" is [a-z],
\* "upper" is [A-Z], "nl" is \n.
InClass(c, cls) ==
  CASE cls = "s" -> c \in SpaceChars
    [] cls = "w" -> c \in WordChars
    [] cls = "S" -> c \notin SpaceChars
    [] cls = "any" -> TRUE
    [] cls = "notnl" -> c # "\n"
    [] cls = "ws" -> c \in WordChars \cup SpaceChars
    [] cls = "d" -> c \in Digits
    [] cls = "notrbr" -> c # "]"
    [] cls = "lower" -> c \in LowerLetters
    [] cls = "upper" -> c \in UpperLetters
    [] cls = "nl" -> c = "\n"
    [] OTHER -> FALSE

LowerOf ==
  [c \in UpperLetters |->
     CASE c = "A" -> "a" [] c = "B" -> "b" [] c = "C" -> "c" [] c = "D" -> "d"
       [] c = "E" -> "e" [] c = "F" -> "f" [] c = "G" -> "g" [] c = "H" -> "h"
       [] c = "I" -> "i" [] c = "J" -> "j" [] c = "K" -> "k" [] c = "L" -> "l"
       [] c = "M" -> "m" [] c = "N" -> "n" [] c = "O" -> "o" [] c = "P" -> "p"
       [] c = "Q" -> "q" [] c = "R" -> "r" [] c = "S" -> "s" [] c = "T" -> "t"
       [] c = "U" -> "u" [] c = "V" -> "v" [] c = "W" -> "w" [] c = "X" -> "x"
       [] c = "Y" -> "y" [] c = "Z" -> "z"]

\* String.prototype.toLowerCase on one character.
ToLower(c) == IF c \in UpperLetters THEN LowerOf[c] ELSE c

\* String.prototype.toUpperCase on one character.
ToUpper(c) ==
  IF c \in LowerLetters THEN CHOOSE u \in UpperLetters : LowerOf[u] = c ELSE c

toLowerCase(s) == [k \in 1..Len(s) |-> ToLower(s[k])]

(***************************************************************************)
(* A backtracking matcher for the regular expressions of the code.         *)
(* A regular expression is a sequence of nodes:                            *)
(*   [k |-> "lit", s |-> chars]              the literal chars             *)
(*   [k |-> "liti", s |-> chars]             the same, ignoring case       *)
(*   [k |-> "rep", c |-> cls, min |-> n, greedy |-> b]                     *)
(*                                           cls{n,} greedy or lazy        *)
(*   [k |-> "one", c |-> cls]                one character of cls          *)
(*   [k |-> "opt", r |-> re]                 (?:re)?                       *)
(*   [k |-> "alt", rs |-> <<re1, re2, ..>>]  (?:re1|re2|..)                *)
(*   [k |-> "open", id |-> n], [k |-> "close", id |-> n]                   *)
(*                                           the ends of capture group n   *)
(*   [k |-> "end"]                           $ (no m flag)                 *)
(*   [k |-> "wb"]                            \b                            *)
(* Alternatives are tried in the order of a backtracking engine, so the    *)
(* first successful match is the one JavaScript reports.                   *)
(***************************************************************************)
MaxCaps == 4

NoCaps == [n \in 1..MaxCaps |-> <<0, 0>>]

NoMatch == [ok |-> FALSE, start |-> 0, pos |-> 0, caps |-> NoCaps]

Lit(s) == [k |-> "lit", s |-> s]
LitI(s) == [k |-> "liti", s |-> s]
Star(cls) == [k |-> "rep", c |-> cls, min |-> 0, greedy |-> TRUE]
Plus(cls) == [k |-> "rep", c |-> cls, min |-> 1, greedy |-> TRUE]
LazyStar(cls) == [k |-> "rep", c |-> cls, min |-> 0, greedy |-> FALSE]
One(cls) == [k |-> "one", c |-> cls]
Opt(re) == [k |-> "opt", r |-> re]
Alt(res) == [k |-> "alt", rs |-> res]
Cap(n, re) == <<[k |-> "open", id |-> n]>> \o re \o <<[k |-> "close", id |-> n]>>
AtEnd == [k |-> "end"]
WordBoundary == [k |-> "wb"]

\* Does the literal s occur in text at position pos (1-based)?
LitAt(text, s, pos, ignoreCase) ==
  /\ pos + Len(s) - 1 <= Len(text)
  /\ \A k \in 1..Len(s) :
       IF ignoreCase
         THEN ToLower(text[pos + k - 1]) = ToLower(s[k])
         ELSE text[pos + k - 1] = s[k]

\* The least element of a non-empty set of integers.
Least(S) == CHOOSE x \in S : \A y \in S : x <= y

\* The greatest element of a non-empty set of integers.
Greatest(S) == CHOOSE x \in S : \A y \in S : x >= y

\* Length of the longest run of characters of class cls starting at pos.
RunLen(text, cls, pos) ==
  LET stops == {j \in pos..Len(text) : ~InClass(text[j], cls)}
  IN IF pos > Len(text)
       THEN 0
       ELSE IF stops = {} THEN Len(text) - pos + 1 ELSE Least(stops) - pos

IsWordAt(text, pos) ==
  pos >= 1 /\ pos <= Len(text) /\ text[pos] \in WordChars

RECURSIVE MatchAt(_, _, _, _)
RECURSIVE GreedyLens(_, _, _, _, _, _)
RECURSIVE LazyLens(_, _, _, _, _, _)
RECURSIVE TryAlts(_, _, _, _, _, _)

\* Match re against text starting exactly at pos; caps are the captures so far.
MatchAt(text, re, pos, caps) ==
  IF re = <<>>
    THEN [ok |-> TRUE, start |-> 0, pos |-> pos, caps |-> caps]
    ELSE
      LET n == Head(re)
          rest == Tail(re)
      IN CASE n.k = "lit" ->
                IF LitAt(text, n.s, pos, FALSE)
                  THEN MatchAt(text, rest, pos + Len(n.s), caps)
                  ELSE NoMatch
           [] n.k = "liti" ->
                IF LitAt(text, n.s, pos, TRUE)
                  THEN MatchAt(text, rest, pos + Len(n.s), caps)
                  ELSE NoMatch
           [] n.k = "one" ->
                IF pos <= Len(text) /\ InClass(text[pos], n.c)
                  THEN MatchAt(text, rest, pos + 1, caps)
                  ELSE NoMatch
           [] n.k = "rep" ->
                LET mx == RunLen(text, n.c, pos)
                IN IF mx < n.min
                     THEN NoMatch
                     ELSE IF n.greedy
                            THEN GreedyLens(text, rest, pos, caps, mx, n.min)
                            ELSE LazyLens(text, rest, pos, caps, n.min, mx)
           [] n.k = "opt" ->
                LET with == MatchAt(text, n.r \o rest, pos, caps)
                IN IF with.ok THEN with ELSE MatchAt(text, rest, pos, caps)
           [] n.k = "alt" -> TryAlts(text, n.rs, rest, pos, caps, 1)
           [] n.k = "open" ->
                MatchAt(text, rest, pos,
                        [caps EXCEPT ![n.id] = <<pos, pos>>])
           [] n.k = "close" ->
                MatchAt(text, rest, pos,
                        [caps EXCEPT ![n.id] = <<caps[n.id][1], pos>>])
           [] n.k = "end" ->
                IF pos = Len(text) + 1
                  THEN MatchAt(text, rest, pos, caps)
                  ELSE NoMatch
           [] n.k = "wb" ->
                IF IsWordAt(text, pos - 1) # IsWordAt(text, pos)
                  THEN MatchAt(text, rest, pos, caps)
                  ELSE NoMatch

\* A greedy repetition: try the lengths len, len-1, .. , min in that order.
GreedyLens(text, rest, pos, caps, len, min) ==
  LET r == MatchAt(text, rest, pos + len, caps)
  IN IF r.ok
       THEN r
       ELSE IF len = min
              THEN NoMatch
              ELSE GreedyLens(text, rest, pos, caps, len - 1, min)

\* A lazy repetition: the shortest length in min..mx after which rest matches
\* (mx + 1 stands for "none").
LazyLens(text, rest, pos, caps, min, mx) ==
  LET Good(len) == MatchAt(text, rest, pos + len, caps).ok
      Shortest(len) ==
        /\ len = mx + 1 \/ Good(len)
        /\ \A shorter \in min..(len - 1) : ~Good(shorter)
      At(first) ==
        IF first = mx + 1
          THEN NoMatch
          ELSE MatchAt(text, rest, pos + first, caps)
  IN At(CHOOSE len \in min..(mx + 1) : Shortest(len))

\* Try the alternatives rs[k], rs[k+1], .. in that order.
TryAlts(text, rs, rest, pos, caps, k) ==
  IF k > Len(rs)
    THEN NoMatch
    ELSE LET r == MatchAt(text, rs[k] \o rest, pos, caps)
         IN IF r.ok THEN r ELSE TryAlts(text, rs, rest, pos, caps, k + 1)

\* RegExp.prototype.exec with lastIndex = from - 1: the leftmost match that
\* starts at or after from.
\* (Len(text) + 2 stands for "no match".)
Search(text, re, from) ==
  LET Good(s) == MatchAt(text, re, s, NoCaps).ok
      Leftmost(s) ==
        /\ s = Len(text) + 2 \/ Good(s)
        /\ \A earlier \in from..(s - 1) : ~Good(earlier)
      At(first) ==
        IF first = Len(text) + 2
          THEN NoMatch
          ELSE [MatchAt(text, re, first, NoCaps) EXCEPT !.start = first]
  IN At(CHOOSE s \in from..(Len(text) + 2) : Leftmost(s))

\* The text of capture group n of a match; <<>> when the group did not take part.
Group(text, m, n) ==
  IF m.caps[n][1] = 0
    THEN <<>>
    ELSE SubSeq(text, m.caps[n][1], m.caps[n][2] - 1)

\* Did capture group n take part in the match (is it not undefined)?
HasGroup(m, n) == m.caps[n][1] # 0

\* The matched text.
Matched(text, m) == SubSeq(text, m.start, m.pos - 1)

RECURSIVE MatchAll(_, _, _)
\* String.prototype.match with a g-flag expression: every match, left to
\* right, each search starting where the previous match ended (one further
\* after an empty match).
MatchAll(text, re, from) ==
  LET From(m) ==
        IF ~m.ok
          THEN <<>>
          ELSE <<Matched(text, m)>>
                 \o MatchAll(text, re, IF m.pos = m.start THEN m.pos + 1 ELSE m.pos)
  IN From(Search(text, re, from))

RECURSIVE ReplaceAll(_, _, _, _)
\* String.prototype.replace with a g-flag expression that matches no empty
\* string: every match, left to right, gives way to the replacement.
ReplaceAll(text, re, by, from) ==
  LET From(m) ==
        IF ~m.ok
          THEN SubSeq(text, from, Len(text))
          ELSE SubSeq(text, from, m.start - 1) \o by
                 \o ReplaceAll(text, re, by, m.pos)
  IN From(Search(text, re, from))

\* String.prototype.includes.
Includes(text, s) == \E p \in 1..(Len(text) + 1) : LitAt(text, s, p, FALSE)

\* String.prototype.trim.
Trim(s) ==
  LET solid == {k \in 1..Len(s) : s[k] \notin SpaceChars}
  IN IF solid = {} THEN <<>> ELSE SubSeq(s, Least(solid), Greatest(solid))

RECURSIVE SplitFrom(_, _, _)
SplitFrom(s, sep, cur) ==
  IF s = <<>>
    THEN <<cur>>
    ELSE IF Head(s) = sep
           THEN <<cur>> \o SplitFrom(Tail(s), sep, <<>>)
           ELSE SplitFrom(Tail(s), sep, Append(cur, Head(s)))

\* String.prototype.split on a one-character separator.
Split(s, sep) == SplitFrom(s, sep, <<>>)

(***************************************************************************)
(* Literal strings of the code                                             *)
(***************************************************************************)
S_Usage == <<"U", "s", "a", "g", "e", ":">>
S_yo == <<"y", "o">>
S_Arguments == <<"A", "r", "g", "u", "m", "e", "n", "t", "s", ":">>
S_Options == <<"O", "p", "t", "i", "o", "n", "s", ":">>
S_Type == <<"T", "y", "p", "e", ":">>
S_Required == <<"R", "e", "q", "u", "i", "r", "e", "d", ":">>
S_Default == <<"D", "e", "f", "a", "u", "l", "t", ":">>
S_true == <<"t", "r", "u", "e">>
S_String == <<"S", "t", "r", "i", "n", "g">>
S_ParenRequired == <<"(", "R", "e", "q", "u", "i", "r", "e", "d", ")">>
S_BracketRequired == <<"[", "R", "e", "q", "u", "i", "r", "e", "d", "]">>
S_required == <<"r", "e", "q", "u", "i", "r", "e", "d">>
S_Optional == <<"O", "p", "t", "i", "o", "n", "a", "l">>

\* (\n\n|\n$|$), the end of a section of the help text
SectionEnd ==
  Alt(<< <<Lit(<<"\n", "\n">>)>>, <<Lit(<<"\n">>), AtEnd>>, <<AtEnd>> >>)

\* (?:\n|$), the end of an entry of a section
EntryEnd == Alt(<< <<Lit(<<"\n">>)>>, <<AtEnd>> >>)

\* /Usage:[\s\n]+yo\s+(\w+)\s+([^\n]+)/
UsageRe ==
  <<Lit(S_Usage), Plus("s"), Lit(S_yo), Plus("s")>>
    \o Cap(1, <<Plus("w")>>) \o <<Plus("s")>> \o Cap(2, <<Plus("notnl")>>)

\* /\[\<(\w+)\>\]/g
UsageArgRe == <<Lit(<<"[", "<">>)>> \o Cap(1, <<Plus("w")>>) \o <<Lit(<<">", "]">>)>>

\* /Arguments:([^]*?)(\n\n|\n$|$)/
ArgsSectionRe ==
  <<Lit(S_Arguments)>> \o Cap(1, <<LazyStar("any")>>) \o Cap(2, <<SectionEnd>>)

\* /\s*(\w+)\s*#\s*([^]*?)(?:\s*Type:\s*(\w+))?(?:\s*Required:\s*(true|false))?(?:\n|$)/g
ArgRe ==
  <<Star("s")>> \o Cap(1, <<Plus("w")>>)
    \o <<Star("s"), Lit(<<"#">>), Star("s")>>
    \o Cap(2, <<LazyStar("any")>>)
    \o <<Opt(<<Star("s"), Lit(S_Type), Star("s")>> \o Cap(3, <<Plus("w")>>))>>
    \o <<Opt(<<Star("s"), Lit(S_Required), Star("s")>>
               \o Cap(4, <<Alt(<< <<Lit(S_true)>>, <<Lit(<<"f", "a", "l", "s", "e">>)>> >>)>>))>>
    \o <<EntryEnd>>

\* /Options:([^]*?)(\n\nArguments:|\n\n|\n$|$)/
OptionsSectionRe ==
  <<Lit(S_Options)>> \o Cap(1, <<LazyStar("any")>>)
    \o Cap(2, <<Alt(<< <<Lit(<<"\n", "\n">> \o S_Arguments)>>,
                       <<Lit(<<"\n", "\n">>)>>,
                       <<Lit(<<"\n">>), AtEnd>>,
                       <<AtEnd>> >>)>>)

\* /\s*(?:-(\w),)?\s*--(\S+)\s*#\s*([^]*?)(?:\s*Default:\s*(\S+))?(?:\n|$)/g
OptionRe ==
  <<Star("s"),
    Opt(<<Lit(<<"-">>)>> \o Cap(1, <<One("w")>>) \o <<Lit(<<",">>)>>),
    Star("s"), Lit(<<"-", "-">>)>>
    \o Cap(2, <<Plus("S")>>)
    \o <<Star("s"), Lit(<<"#">>), Star("s")>>
    \o Cap(3, <<LazyStar("any")>>)
    \o <<Opt(<<Star("s"), Lit(S_Default), Star("s")>> \o Cap(4, <<Plus("S")>>))>>
    \o <<EntryEnd>>

\* /(?:Questions|Prompts|Inputs):(.*?)(?:\n\n|\n$|$)/is
PromptRe ==
  <<Alt(<< <<LitI(<<"Q", "u", "e", "s", "t", "i", "o", "n", "s">>)>>,
           <<LitI(<<"P", "r", "o", "m", "p", "t", "s">>)>>,
           <<LitI(<<"I", "n", "p", "u", "t", "s">>)>> >>),
    LitI(<<":">>)>>
    \o Cap(1, <<LazyStar("any")>>) \o <<SectionEnd>>

\* /\[([^\]]+)\]/
EnumRe == <<Lit(<<"[">>)>> \o Cap(1, <<Plus("notrbr")>>) \o <<Lit(<<"]">>)>>

\* /\b(enter|specify|provide)\b/i
PromptVerbRe ==
  <<WordBoundary>>
    \o Cap(1, <<Alt(<< <<LitI(<<"e", "n", "t", "e", "r">>)>>,
                        <<LitI(<<"s", "p", "e", "c", "i", "f", "y">>)>>,
                        <<LitI(<<"p", "r", "o", "v", "i", "d", "e">>)>> >>)>>)
    \o <<WordBoundary>>

\* A variant of nonRequiredOptions with no name on it;
\* DenyListedNeverRequired must notice it.
nonRequiredOptionsNone == {}

nonRequiredOptions ==
  { <<"h", "e", "l", "p">>,
    <<"s", "k", "i", "p", "-", "c", "a", "c", "h", "e">>,
    <<"s", "k", "i", "p", "-", "i", "n", "s", "t", "a", "l", "l">>,
    <<"f", "o", "r", "c", "e", "-", "i", "n", "s", "t", "a", "l", "l">>,
    <<"a", "s", "k", "-", "a", "n", "s", "w", "e", "r", "e", "d">>,
    <<"f", "o", "r", "c", "e">>,
    <<"y", "e", "s">>,
    <<"f", "o", "r", "c", "e", "-", "y", "e", "s">>,
    <<"q", "u", "i", "e", "t">>,
    <<"n", "o", "-", "c", "o", "l", "o", "r">>,
    <<"n", "o", "-", "i", "n", "s", "i", "g", "h", "t">>,
    <<"s", "i", "l", "e", "n", "t">> }

likelyRequiredOptionPatterns ==
  << <<"u", "s", "e", "r", "n", "a", "m", "e">>,
     <<"n", "a", "m", "e">>,
     <<"e", "m", "a", "i", "l">>,
     <<"a", "u", "t", "h", "o", "r">>,
     <<"c", "s", "s">>,
     <<"s", "t", "y", "l", "e">>,
     <<"c", "l", "i", "e", "n", "t">>,
     <<"g", "r", "a", "p", "h", "q", "l">> >>

(***************************************************************************)
(* parseGeneratorHelp                                                      *)
(***************************************************************************)
RECURSIVE RemoveChars(_, _)
\* match.replace(/[\[\]<>]/g, '')
RemoveChars(s, cs) ==
  IF s = <<>>
    THEN <<>>
    ELSE IF Head(s) \in cs
           THEN RemoveChars(Tail(s), cs)
           ELSE <<Head(s)>> \o RemoveChars(Tail(s), cs)

\* The preliminary entry pushed for a placeholder of the usage line.
UsageArg(match) ==
  [name |-> RemoveChars(match, {"[", "]", "<", ">"}),
   type |-> S_String, required |-> FALSE, description |-> <<>>]

\* The arguments seeded from the usage line (empty when there is none).
UsageArgs(helpOutput) ==
  LET Pushed(argMatches) ==
        [k \in 1..Len(argMatches) |-> UsageArg(argMatches[k])]
      usageLine(usageMatch) == Trim(Group(helpOutput, usageMatch, 2))
      From(usageMatch) ==
        IF ~usageMatch.ok
          THEN <<>>
          ELSE Pushed(MatchAll(usageLine(usageMatch), UsageArgRe, 1))
  IN From(Search(helpOutput, UsageRe, 1))

\* result.args.findIndex(a => a.name === name); 0 when there is none.
FindArgIndex(args, name) ==
  IF \E k \in 1..Len(args) : args[k].name = name
    THEN CHOOSE k \in 1..Len(args) :
           /\ args[k].name = name
           /\ \A j \in 1..(k - 1) : args[j].name # name
    ELSE 0

\* The entry built from one match of the argument expression.
ArgOfMatch(section, m) ==
  [name |-> Group(section, m, 1),
   type |-> IF HasGroup(m, 3) /\ Group(section, m, 3) # <<>>
              THEN Group(section, m, 3) ELSE S_String,
   required |-> HasGroup(m, 4) /\ Group(section, m, 4) = S_true,
   description |-> Trim(Group(section, m, 2))]

RECURSIVE ArgsLoop(_, _, _)
\* while ((match = argRegex.exec(argsSection)) !== null) { .. }
ArgsLoop(section, from, args) ==
  LET Put(arg, k) ==
        IF k > 0 THEN [args EXCEPT ![k] = arg] ELSE Append(args, arg)
      Merged(arg) == Put(arg, FindArgIndex(args, arg.name))
      From(m) ==
        IF ~m.ok
          THEN args
          ELSE ArgsLoop(section, m.pos, Merged(ArgOfMatch(section, m)))
  IN From(Search(section, ArgRe, from))

\* The entry built from one match of the option expression.
OptionOfMatch(section, m) ==
  LET name == Group(section, m, 2)
      description == Group(section, m, 3)
      isRequired ==
        \/ Includes(description, S_ParenRequired)
        \/ Includes(description, S_BracketRequired)
        \/ Includes(description, S_required)
        \/ ~Includes(description, S_Optional)
  IN [name |-> name,
      flag |-> Group(section, m, 1),
      description |-> Trim(description),
      hasDefault |-> HasGroup(m, 4),
      default |-> Group(section, m, 4),
      required |-> IF name \in nonRequiredOptions THEN FALSE ELSE isRequired]

RECURSIVE OptionsLoop(_, _, _)
\* while ((match = optionRegex.exec(optionsSection)) !== null) { .. }
OptionsLoop(section, from, options) ==
  LET From(m) ==
        IF ~m.ok
          THEN options
          ELSE OptionsLoop(section, m.pos,
                           Append(options, OptionOfMatch(section, m)))
  IN From(Search(section, OptionRe, from))

\* The re-evaluation of one option against the prompt section.
PromptAdjust(option, promptSection) ==
  IF option.name \in nonRequiredOptions
    THEN [option EXCEPT !.required = FALSE]
    ELSE IF Includes(promptSection, option.name)
           THEN [option EXCEPT !.required = TRUE]
           ELSE option

\* A variant of parseGeneratorHelp that looks for options in the whole help
\* text when it finds no Options section.
parseGeneratorHelpWholeText(helpOutput) ==
  [args |-> <<>>, options |-> OptionsLoop(helpOutput, 1, <<>>)]

parseGeneratorHelp(helpOutput) ==
  LET Args(usageArgs, argsMatch) ==
        IF argsMatch.ok
          THEN ArgsLoop(Group(helpOutput, argsMatch, 1), 1, usageArgs)
          ELSE usageArgs
      Options(optionsMatch) ==
        IF optionsMatch.ok
          THEN OptionsLoop(Group(helpOutput, optionsMatch, 1), 1, <<>>)
          ELSE <<>>
      Adjusted(options, promptMatch) ==
        IF promptMatch.ok
          THEN [k \in 1..Len(options) |->
                  PromptAdjust(options[k], Group(helpOutput, promptMatch, 1))]
          ELSE options
  IN [args |-> Args(UsageArgs(helpOutput),
                    Search(helpOutput, ArgsSectionRe, 1)),
      options |-> Adjusted(Options(Search(helpOutput, OptionsSectionRe, 1)),
                           Search(helpOutput, PromptRe, 1))]

(***************************************************************************)
(* extractEnumValues, isOptionRequired, checkRequiredArguments             *)
(***************************************************************************)
\* A variant of extractEnumValues that never finds a list of choices;
\* ScenarioCheckReportsBoth must notice it.
extractEnumValuesNull(description) == [found |-> FALSE, values |-> <<>>]

\* null is [found |-> FALSE]; otherwise the values of the first bracketed list.
extractEnumValues(description) ==
  LET Values(m) ==
        IF m.ok
          THEN [found |-> TRUE, values |-> Split(Group(description, m, 1), "|")]
          ELSE [found |-> FALSE, values |-> <<>>]
  IN Values(Search(description, EnumRe, 1))

isOptionRequired(option) ==
  IF option.required
    THEN TRUE
  ELSE IF option.hasDefault
    THEN FALSE
  ELSE IF Includes(option.description, S_Default)
    THEN FALSE
  ELSE IF option.name \in nonRequiredOptions
    THEN FALSE
  ELSE IF \E k \in 1..Len(likelyRequiredOptionPatterns) :
            Includes(toLowerCase(option.name), likelyRequiredOptionPatterns[k])
    THEN TRUE
  ELSE IF \/ Includes(option.description, <<"?">>)
          \/ Search(option.description, PromptVerbRe, 1).ok
    THEN TRUE
  ELSE LET NonEmpty(enumValues) ==
             enumValues.found /\ Len(enumValues.values) > 0
       IN NonEmpty(extractEnumValues(option.description))

RECURSIVE camelCase(_)
\* kebabName.replace(/-([a-z])/g, g => g[1].toUpperCase())
camelCase(s) ==
  IF s = <<>>
    THEN <<>>
    ELSE IF Len(s) >= 2 /\ s[1] = "-" /\ s[2] \in LowerLetters
           THEN <<ToUpper(s[2])>> \o camelCase(SubSeq(s, 3, Len(s)))
           ELSE <<Head(s)>> \o camelCase(Tail(s))

\* A requirement check that reports no argument.
MissingArgsNone(helpInfo, providedArgs) == <<>>

\* The check with providedArgs.length < index in place of <=.
MissingArgsOffByOne(helpInfo, providedArgs) ==
  LET idx == SelectSeq([k \in 1..Len(helpInfo.args) |-> k],
                       LAMBDA k : /\ helpInfo.args[k].required
                                  /\ Len(providedArgs) < k - 1)
  IN [j \in 1..Len(idx) |->
        [name |-> helpInfo.args[idx[j]].name,
         description |-> helpInfo.args[idx[j]].description]]

\* helpInfo.args.forEach((arg, index) => { if (arg.required && ..) push })
MissingArgs(helpInfo, providedArgs) ==
  LET idx == SelectSeq([k \in 1..Len(helpInfo.args) |-> k],
                       LAMBDA k : /\ helpInfo.args[k].required
                                  /\ Len(providedArgs) <= k - 1)
  IN [j \in 1..Len(idx) |->
        [name |-> helpInfo.args[idx[j]].name,
         description |-> helpInfo.args[idx[j]].description]]

(***************************************************************************)
(* JavaScript values of the request parameters and of the options          *)
(***************************************************************************)
\* A string that only names one of a few generators, directories or queries
\* (generatorName, cwd, query) is held by that name (Str). A string that the
\* program takes apart or puts together (appName, version, the positional
\* arguments, the values of options) is the sequence of its characters (Txt).
Str(s) == [t |-> "string", s |-> s, c |-> <<>>, n |-> 0, b |-> FALSE]
Txt(c) == [t |-> "string", s |-> "", c |-> c, n |-> 0, b |-> FALSE]
Num(n) == [t |-> "number", s |-> "", c |-> <<>>, n |-> n, b |-> FALSE]
Bool(b) == [t |-> "boolean", s |-> "", c |-> <<>>, n |-> 0, b |-> b]
Undefined == [t |-> "undefined", s |-> "", c |-> <<>>, n |-> 0, b |-> FALSE]

\* The truthiness that !value tests.
Truthy(v) ==
  CASE v.t = "string" -> v.s # "" \/ v.c # <<>>
    [] v.t = "number" -> v.n # 0
    [] v.t = "boolean" -> v.b
    [] OTHER -> FALSE

\* An options object is the sequence of its [key, value] entries in insertion
\* order, keys unique. providedOptions[key]: undefined when there is no entry.
Lookup(options, key) ==
  IF \E k \in 1..Len(options) : options[k].key = key
    THEN options[CHOOSE k \in 1..Len(options) : options[k].key = key].value
    ELSE Undefined

\* !providedOptions[kebabName] && !providedOptions[camelName]
NotProvided(providedOptions, kebabName) ==
  /\ ~Truthy(Lookup(providedOptions, kebabName))
  /\ ~Truthy(Lookup(providedOptions, camelCase(kebabName)))

\* The entry of missingOptions that one option contributes: <<entry>> or <<>>.
MissingOption(option, providedOptions) ==
  LET Pushed(isRequired, enumValues) ==
        IF /\ enumValues.found
           /\ Len(enumValues.values) > 0
           /\ NotProvided(providedOptions, option.name)
          THEN IF isRequired
                 THEN << [name |-> option.name,
                          description |-> option.description,
                          enumValues |-> enumValues] >>
                 ELSE <<>>
          ELSE IF isRequired /\ NotProvided(providedOptions, option.name)
                 THEN << [name |-> option.name,
                          description |-> option.description,
                          enumValues |-> [found |-> FALSE, values |-> <<>>]] >>
                 ELSE <<>>
  IN Pushed(isOptionRequired(option), extractEnumValues(option.description))

RECURSIVE MissingOptions(_, _, _)
\* helpInfo.options.forEach(option => { .. })
MissingOptions(options, k, providedOptions) ==
  IF k > Len(options)
    THEN <<>>
    ELSE MissingOption(options[k], providedOptions)
           \o MissingOptions(options, k + 1, providedOptions)

checkRequiredArguments(helpInfo, providedArgs, providedOptions) ==
  [missingRequired |-> MissingArgs(helpInfo, providedArgs),
   missingOptions |-> MissingOptions(helpInfo.options, 1, providedOptions)]

(***************************************************************************)
(* Classification of the generator's output (runYeomanGenerator)           *)
(***************************************************************************)
NotFoundMarker ==
  <<"D", "i", "d", " ", "n", "o", "t", " ", "f", "i", "n", "d", " ", "a",
    " ", "s", "u", "i", "t", "a", "b", "l", "e", " ", "g", "e", "n", "e",
    "r", "a", "t", "o", "r">>

InvalidVersionMarker ==
  <<"I", "n", "v", "a", "l", "i", "d", " ", "v", "e", "r", "s", "i", "o",
    "n", " ", "f", "o", "r", "m", "a", "t">>

\* /\?\s+[\w\s]+/g
QuestionRe == <<Lit(<<"?">>), Plus("s"), Plus("ws")>>

\* />\s+[\w\s]+/g
SelectionRe == <<Lit(<<">">>), Plus("s"), Plus("ws")>>

\* /\?\s+[\w\s]+[^\n]*/g
QuestionLineRe == <<Lit(<<"?">>), Plus("s"), Plus("ws"), Star("notnl")>>

\* />\s+[\w\s]+[^\n]*/g
SelectionLineRe == <<Lit(<<">">>), Plus("s"), Plus("ws"), Star("notnl")>>

\* The test that the output contains prompts.
HasPrompts(output) ==
  /\ Includes(output, <<"?">>)
  /\ \/ MatchAll(output, QuestionRe, 1) # <<>>
     \/ MatchAll(output, SelectionRe, 1) # <<>>

\* [...questionPrompts, ...optionPrompts].map(line => line.trim())
PromptLines(output) ==
  LET Trimmed(lines) == [k \in 1..Len(lines) |-> Trim(lines[k])]
  IN Trimmed(MatchAll(output, QuestionLineRe, 1)
               \o MatchAll(output, SelectionLineRe, 1))

\* The shape of every result object; a field that a result does not carry
\* keeps its value here.
NoResult ==
  [success |-> FALSE, error |-> "", generator |-> "",
   missingRequired |-> <<>>, missingOptions |-> <<>>,
   promptsDetected |-> <<>>, suggestions |-> <<>>,
   generatorRan |-> FALSE, generatorConfigExists |-> FALSE,
   args |-> <<>>, options |-> <<>>]

Suggest(kind, subject) == [kind |-> kind, subject |-> subject]

\* A variant of Classify that looks at the exit code only; ClassifiedInOrder
\* must notice it.
ClassifyByExitCode(generatorName, output, exitedZero) ==
  IF exitedZero
    THEN [NoResult EXCEPT !.success = TRUE, !.generatorRan = TRUE]
    ELSE [NoResult EXCEPT !.error = "Generator failed to run successfully"]

\* The result decided from the output alone once the process has exited, with
\* exitedZero telling whether its exit code was 0. A success result is
\* completed by the look at .yo-rc.json.
Classify(generatorName, output, exitedZero) ==
  IF Includes(output, NotFoundMarker)
    THEN [NoResult EXCEPT
            !.error = "Generator not found",
            !.generator = generatorName,
            !.suggestions = <<Suggest("Make sure generator exists on npm", <<>>)>>]
  ELSE IF HasPrompts(output)
    THEN LET Interactive(promptLines) ==
               [NoResult EXCEPT
                  !.error = "Generator entered interactive mode - missing required options",
                  !.promptsDetected = promptLines,
                  !.suggestions =
                    <<Suggest("The generator is trying to prompt for input", <<>>)>>
                      \o [k \in 1..Len(promptLines) |-> Suggest("-", promptLines[k])]
                      \o <<Suggest("Run with --help to see all available options", <<>>)>>]
         IN Interactive(PromptLines(output))
  ELSE IF Includes(output, InvalidVersionMarker)
    THEN [NoResult EXCEPT
            !.error = "Invalid version format provided",
            !.suggestions =
              <<Suggest("Version should follow semantic versioning", <<>>),
                Suggest("Make sure your arguments are in the correct order", <<>>)>>]
  ELSE IF ~exitedZero
    THEN [NoResult EXCEPT !.error = "Generator failed to run successfully"]
  ELSE [NoResult EXCEPT !.success = TRUE, !.generatorRan = TRUE]

(***************************************************************************)
(* The server: tool calls in flight, the generator directories on disk     *)
(***************************************************************************)
\* Tool calls that can be in flight at the same time.
MaxInv == 2

\* Tool calls made in one run of the server.
MaxCalls == 2

Inv == 1..MaxInv

\* null, as the value of persistentGeneratorDir and of an unset directory.
NoDir == -1

\* The directory named by --generator-dir.
PersistDir == 0

\* Directory 0 is the persistent one; k > 0 is the k-th directory that
\* fs.mkdtemp made (its random suffix makes every name new).
Dirs == 0..MaxCalls

Generators == {"app", "lib"}

\* What a generator directory can hold: the manifest, node_modules/yo and
\* node_modules/generator-<name> (named here by <name>).
Entries == {"package.json", "yo"} \cup Generators

\* What the persistent directory can hold when the server starts: nothing,
\* a manifest only, an earlier install of one generator or of both.
KeptEntries ==
  {{}, {"package.json"}, {"package.json", "yo", "app"}, Entries}

VARIABLES
  build,                   \* the source that runs: "index.ts" or "part_002"
  persistentGeneratorDir,  \* the module variable of part_002
  disk,                    \* the generator directories that exist on disk
  files,                   \* what each directory holds
  made,                    \* how many directories fs.mkdtemp has made
  processCwd,              \* the current working directory of the process
  calls,                   \* how many tool calls were made
  inv,                     \* the tool calls in flight
  probe                    \* input and result of a function applied alone

vars ==
  <<build, persistentGeneratorDir, disk, files, made, processCwd, calls, inv,
    probe>>

K_style == <<"s", "t", "y", "l", "e">>
S_appName == <<"a", "p", "p", "N", "a", "m", "e">>
S_css == <<"c", "s", "s">>
S_sass == <<"s", "a", "s", "s">>
S_myapp == <<"m", "y", "a", "p", "p">>
S_version == <<"1", ".", "0", ".", "0">>

\* Help texts that the help process prints in the runs of the server.
\* HelpStyle: a required argument appName and an option --style [css|sass].
HelpStyle ==
  <<"U", "s", "a", "g", "e", ":", "\n", " ", " ", "y", "o", " ", "a", "p",
    "p", " ", "[", "<", "a", "p", "p", "N", "a", "m", "e", ">", "]", " ",
    "[", "o", "p", "t", "i", "o", "n", "s", "]", "\n", "\n", "O", "p", "t",
    "i", "o", "n", "s", ":", "\n", " ", " ", "-", "h", ",", " ", "-", "-",
    "h", "e", "l", "p", " ", " ", " ", "#", " ", "P", "r", "i", "n", "t",
    " ", "h", "e", "l", "p", "\n", " ", " ", " ", " ", " ", " ", "-", "-",
    "s", "t", "y", "l", "e", " ", " ", "#", " ", "S", "t", "y", "l", "e",
    " ", "[", "c", "s", "s", "|", "s", "a", "s", "s", "]", "\n", "\n", "A",
    "r", "g", "u", "m", "e", "n", "t", "s", ":", "\n", " ", " ", "a", "p",
    "p", "N", "a", "m", "e", " ", " ", "#", " ", "A", "p", "p", " ", "n",
    "a", "m", "e", " ", " ", "T", "y", "p", "e", ":", " ", "S", "t", "r",
    "i", "n", "g", " ", " ", "R", "e", "q", "u", "i", "r", "e", "d", ":",
    " ", "t", "r", "u", "e", "\n">>

\* HelpPlain: no argument and no required option.
HelpPlain ==
  <<"U", "s", "a", "g", "e", ":", "\n", " ", " ", "y", "o", " ", "a", "p",
    "p", " ", "[", "o", "p", "t", "i", "o", "n", "s", "]", "\n", "\n", "O",
    "p", "t", "i", "o", "n", "s", ":", "\n", " ", " ", "-", "h", ",", " ",
    "-", "-", "h", "e", "l", "p", " ", " ", "#", " ", "P", "r", "i", "n",
    "t", " ", "h", "e", "l", "p", "\n", " ", " ", "-", "-", "p", "o", "r",
    "t", " ", " ", "#", " ", "O", "p", "t", "i", "o", "n", "a", "l", " ",
    "p", "o", "r", "t", " ", " ", "D", "e", "f", "a", "u", "l", "t", ":",
    " ", "8", "0", "8", "0", "\n">>

HelpTexts == <<HelpStyle, HelpPlain>>

\* parseGeneratorHelp of each help text, computed once.
HelpInfos ==
  <<parseGeneratorHelp(HelpTexts[1]), parseGeneratorHelp(HelpTexts[2])>>

\* Outputs of the generator process in the runs of the server.
OutNotFound ==
  <<"E", "r", "r", "o", "r", ":", " ", "D", "i", "d", " ", "n", "o", "t",
    " ", "f", "i", "n", "d", " ", "a", " ", "s", "u", "i", "t", "a", "b",
    "l", "e", " ", "g", "e", "n", "e", "r", "a", "t", "o", "r", "\n">>

OutPrompt == <<"?", " ", "N", "a", "m", "e", "\n">>

OutInvalidVersion ==
  <<"I", "n", "v", "a", "l", "i", "d", " ", "v", "e", "r", "s", "i", "o",
    "n", " ", "f", "o", "r", "m", "a", "t", "\n">>

OutPlain == <<"d", "o", "n", "e", "\n">>

RunOutputs == {OutNotFound, OutPrompt, OutInvalidVersion, OutPlain}

(***************************************************************************)
(* Requests and their validation (the zod schemas)                         *)
(***************************************************************************)
NoArgs == [t |-> "undefined", items |-> <<>>]
ArgsOf(items) == [t |-> "array", items |-> items]
NoOptions == [t |-> "undefined", entries |-> <<>>]
OptionsOf(entries) == [t |-> "object", entries |-> entries]
Entry(key, value) == [key |-> key, value |-> value]

Request(tool, generatorName, cwd, appName, version, args, options, query, pageSize) ==
  [tool |-> tool, generatorName |-> generatorName, cwd |-> cwd,
   appName |-> appName, version |-> version, args |-> args,
   options |-> options, query |-> query, pageSize |-> pageSize]

NoRequest ==
  Request("", Undefined, Undefined, Undefined, Undefined, NoArgs, NoOptions,
          Undefined, Undefined)

\* A well-formed yeoman_generate request; the others differ from it in the
\* fields named.
BaseRequest ==
  Request("yeoman_generate", Str("app"), Str("/work"), Txt(S_myapp),
          Txt(S_version), NoArgs, NoOptions, Undefined, Undefined)

ValidGenerateRequests ==
  {BaseRequest,
   [BaseRequest EXCEPT !.options = OptionsOf(<<Entry(K_style, Txt(S_css))>>),
                       !.args = ArgsOf(<<Txt(S_sass), Txt(S_css)>>)],
   [BaseRequest EXCEPT !.generatorName = Str("lib"), !.cwd = Str("/other"),
                       !.appName = Txt(<<>>), !.version = Txt(<<>>),
                       !.options = OptionsOf(<<Entry(K_style, Txt(S_css))>>)]}

InvalidGenerateRequests ==
  {[BaseRequest EXCEPT !.generatorName = Undefined],
   [BaseRequest EXCEPT !.cwd = Num(7)],
   [BaseRequest EXCEPT !.args = ArgsOf(<<Txt(S_css), Num(1)>>)],
   [BaseRequest EXCEPT !.options = [t |-> "string", entries |-> <<>>]],
   [BaseRequest EXCEPT !.generatorName = Undefined, !.cwd = Num(7)]}

GenerateRequests == ValidGenerateRequests \cup InvalidGenerateRequests

OptionsRequests ==
  {Request("yeoman_get_generator_options", g, Undefined, Undefined, Undefined,
           NoArgs, NoOptions, Undefined, Undefined) :
     g \in {Str("app"), Num(7)}}

SearchRequests ==
  {Request("yeoman_search_templates", Undefined, Undefined, Undefined,
           Undefined, NoArgs, NoOptions, q, p) :
     q \in {Str("react"), Undefined}, p \in {Undefined, Str("5")}}

OtherRequests ==
  {Request("yeoman_delete", Undefined, Undefined, Undefined, Undefined,
           NoArgs, NoOptions, Undefined, Undefined)}

Requests ==
  GenerateRequests \cup OptionsRequests \cup SearchRequests \cup OtherRequests

\* The message of zod for a value whose type is not the expected one.
ZodMessage(expected, received) ==
  IF received = "undefined"
    THEN "Required"
    ELSE CASE expected = "string" /\ received = "number" ->
                "Expected string, received number"
           [] expected = "number" /\ received = "string" ->
                "Expected number, received string"
           [] expected = "object" /\ received = "string" ->
                "Expected object, received string"
           [] expected = "array" /\ received = "string" ->
                "Expected array, received string"
           [] OTHER -> "Invalid input"

\* The issue (none or one) of a field that must have the type expected.
Required(path, expected, value) ==
  IF value.t = expected
    THEN <<>>
    ELSE <<[path |-> path, message |-> ZodMessage(expected, value.t)]>>

\* The same for a field that may be absent.
Optional(path, expected, value) ==
  IF value.t = "undefined" THEN <<>> ELSE Required(path, expected, value)

IndexNames == <<"0", "1", "2">>

RECURSIVE ItemIssues(_, _)
\* z.array(z.string()): one issue for every element that is not a string.
ItemIssues(items, k) ==
  IF k > Len(items)
    THEN <<>>
    ELSE Required(<<"args", IndexNames[k]>>, "string", items[k])
           \o ItemIssues(items, k + 1)

ArgsIssues(args) ==
  IF args.t = "undefined"
    THEN <<>>
    ELSE IF args.t # "array"
           THEN Required(<<"args">>, "array", args)
           ELSE ItemIssues(args.items, 1)

\* SearchYeomanTemplatesArgumentsSchema.parse
SearchIssues(req) ==
  Required(<<"query">>, "string", req.query)
    \o Optional(<<"pageSize">>, "number", req.pageSize)

\* GetGeneratorOptionsArgumentsSchema.parse
OptionsIssues(req) == Required(<<"generatorName">>, "string", req.generatorName)

\* RunYeomanGeneratorArgumentsSchema.parse of part_002
GenerateIssues(req) ==
  Required(<<"generatorName">>, "string", req.generatorName)
    \o Optional(<<"options">>, "object", req.options)
    \o Required(<<"cwd">>, "string", req.cwd)
    \o ArgsIssues(req.args)
    \o Required(<<"appName">>, "string", req.appName)
    \o Required(<<"version">>, "string", req.version)

\* RunYeomanGeneratorArgumentsSchema.parse of index.ts
IndexGenerateIssues(req) ==
  Required(<<"generatorName">>, "string", req.generatorName)
    \o Optional(<<"options">>, "object", req.options)
    \o Required(<<"cwd">>, "string", req.cwd)

\* The tools that the switch of the handler knows.
KnownTools(b) ==
  IF b = "index.ts"
    THEN {"yeoman_search_templates", "yeoman_generate"}
    ELSE {"yeoman_search_templates", "yeoman_get_generator_options",
          "yeoman_generate"}

\* A variant of ZodIssues that accepts every request; InvalidArgumentsFirst
\* must notice it.
ZodIssuesNone(b, req) == <<>>

ZodIssues(b, req) ==
  CASE req.tool = "yeoman_search_templates" -> SearchIssues(req)
    [] req.tool = "yeoman_get_generator_options" -> OptionsIssues(req)
    [] req.tool = "yeoman_generate" ->
         IF b = "index.ts" THEN IndexGenerateIssues(req) ELSE GenerateIssues(req)
    [] OTHER -> <<>>

(***************************************************************************)
(* The handler's preparation of a yeoman_generate call                     *)
(***************************************************************************)
\* The non-interactive options that the handler adds, in its order.
ForcedOptions ==
  << <<"s", "k", "i", "p", "-", "i", "n", "s", "t", "a", "l", "l">>,
     <<"s", "k", "i", "p", "-", "c", "a", "c", "h", "e">>,
     <<"f", "o", "r", "c", "e", "-", "y", "e", "s">>,
     <<"y", "e", "s">>,
     <<"n", "o", "-", "i", "n", "s", "i", "g", "h", "t">>,
     <<"n", "o", "-", "c", "o", "l", "o", "r">>,
     <<"q", "u", "i", "e", "t">> >>

RECURSIVE WithForcedCallerWins(_, _)
\* The spread the other way round, { 'skip-install': true, .., ...options }:
\* a key that options has keeps the caller's value.
WithForcedCallerWins(entries, k) ==
  IF k > Len(ForcedOptions)
    THEN entries
    ELSE LET key == ForcedOptions[k]
             set == IF \E j \in 1..Len(entries) : entries[j].key = key
                      THEN entries
                      ELSE Append(entries, Entry(key, Bool(TRUE)))
         IN WithForcedCallerWins(set, k + 1)

RECURSIVE WithForced(_, _)
\* { ...options, 'skip-install': true, .. }: a key that options has keeps its
\* place and takes the value true, a new key is added at the end.
WithForced(entries, k) ==
  IF k > Len(ForcedOptions)
    THEN entries
    ELSE LET key == ForcedOptions[k]
             set == IF \E j \in 1..Len(entries) : entries[j].key = key
                      THEN [j \in 1..Len(entries) |->
                              IF entries[j].key = key
                                THEN Entry(key, Bool(TRUE))
                                ELSE entries[j]]
                      ELSE Append(entries, Entry(key, Bool(TRUE)))
         IN WithForced(set, k + 1)

mergedOptions(req) == WithForced(req.options.entries, 1)

\* A variant of allPositionalArgs that puts version and appName after the
\* caller's arguments; PositionalArgsInOrder must notice it.
allPositionalArgsPushed(req) ==
  [k \in 1..Len(req.args.items) |-> req.args.items[k].c]
    \o (IF req.version.c # <<>> THEN <<req.version.c>> ELSE <<>>)
    \o (IF req.appName.c # <<>> THEN <<req.appName.c>> ELSE <<>>)

\* [...positionalArgs], then unshift(version) and unshift(appName) when they
\* are not empty.
allPositionalArgs(req) ==
  (IF req.appName.c # <<>> THEN <<req.appName.c>> ELSE <<>>)
    \o (IF req.version.c # <<>> THEN <<req.version.c>> ELSE <<>>)
    \o [k \in 1..Len(req.args.items) |-> req.args.items[k].c]

(***************************************************************************)
(* The command line of the generator process (runYeomanGenerator)          *)
(***************************************************************************)
DigitChars == <<"0", "1", "2", "3", "4", "5", "6", "7", "8", "9">>

\* `${value}` for the values that reach it: a string as it is, a number (of
\* one digit in this model) in decimal.
TemplateString(value) ==
  IF value.t = "string" THEN value.c ELSE <<DigitChars[value.n + 1]>>

\* The characters of a generator's name.
GeneratorText(generatorName) ==
  IF generatorName = "app" THEN <<"a", "p", "p">> ELSE <<"l", "i", "b">>

\* path.join(nodeModulesPath, 'yo', 'lib', 'cli.js'), the directory genDir
\* written as /d<genDir>.
cliYoPath(genDir) ==
  <<"/", "d", DigitChars[genDir + 1]>>
    \o <<"/", "n", "o", "d", "e", "_", "m", "o", "d", "u", "l", "e", "s", "/",
         "y", "o", "/", "l", "i", "b", "/", "c", "l", "i", ".", "j", "s">>

RECURSIVE OptionArgs(_, _)
\* for (const [key, value] of Object.entries(options)): --key for true,
\* --key=value for a value other than false, undefined and null.
OptionArgs(options, k) ==
  IF k > Len(options)
    THEN <<>>
    ELSE (IF options[k].value = Bool(TRUE)
            THEN << <<"-", "-">> \o options[k].key >>
          ELSE IF options[k].value # Bool(FALSE)
                    /\ options[k].value.t # "undefined"
            THEN << <<"-", "-">> \o options[k].key \o <<"=">>
                      \o TemplateString(options[k].value) >>
          ELSE <<>>)
         \o OptionArgs(options, k + 1)

nonInteractiveFlags ==
  << <<"-", "-", "n", "o", "-", "i", "n", "s", "i", "g", "h", "t">>,
     <<"-", "-", "n", "o", "-", "c", "o", "l", "o", "r">>,
     <<"-", "-", "f", "o", "r", "c", "e", "-", "y", "e", "s">>,
     <<"-", "-", "y", "e", "s">>,
     <<"-", "-", "s", "k", "i", "p", "-", "i", "n", "s", "t", "a", "l", "l">>,
     <<"-", "-", "s", "k", "i", "p", "-", "c", "a", "c", "h", "e">>,
     <<"-", "-", "s", "k", "i", "p", "-", "p", "r", "o", "m", "p", "t", "s">>,
     <<"-", "-", "q", "u", "i", "e", "t">>,
     <<"-", "-", "n", "o", "-", "i", "n", "t", "e", "r", "a", "c", "t", "i", "v", "e">> >>

RECURSIVE WithFlags(_, _)
\* nonInteractiveFlags.forEach: push the flag when yoArgs does not include it.
WithFlags(args, k) ==
  IF k > Len(nonInteractiveFlags)
    THEN args
    ELSE WithFlags(IF \E j \in 1..Len(args) : args[j] = nonInteractiveFlags[k]
                     THEN args
                     ELSE Append(args, nonInteractiveFlags[k]),
                   k + 1)

\* A variant of yoArgs that appends every flag without looking;
\* FlagsAppendedOnce must notice it.
yoArgsAllFlags(genDir, generatorName, args, options) ==
  <<cliYoPath(genDir), GeneratorText(generatorName)>> \o args
    \o OptionArgs(options, 1) \o nonInteractiveFlags

\* yoArgs as it is handed to spawn('node', yoArgs, ..).
yoArgs(genDir, generatorName, args, options) ==
  WithFlags(<<cliYoPath(genDir), GeneratorText(generatorName)>> \o args
              \o OptionArgs(options, 1), 1)

(***************************************************************************)
(* Tool calls                                                              *)
(***************************************************************************)
NoResponse == [kind |-> "none", error |-> "", cause |-> "", issues |-> <<>>,
               result |-> NoResult]

Returned(result) == [NoResponse EXCEPT !.kind = "returned", !.result = result]

Thrown(error, cause) ==
  [NoResponse EXCEPT !.kind = "thrown", !.error = error, !.cause = cause]

NoCheck == [missingRequired |-> <<>>, missingOptions |-> <<>>]

NoExit == [kind |-> "none", zero |-> FALSE, output |-> <<>>]

\* One tool call: where it stands (pc), the request and what the handler made
\* of it, the arguments handed to checkRequiredArguments and to spawn, the
\* directory it works in, the processes it has spawned, what came
\* back from them, the result held during cleanup and the response.
Idle ==
  [pc |-> "idle", req |-> NoRequest, tool |-> "", gen |-> "", cwd |-> "",
   args |-> <<>>, options |-> <<>>, checkedArgs |-> <<>>, yoArgs |-> <<>>,
   genDir |-> NoDir,
   shouldCleanup |-> FALSE, procs |-> {}, install |-> "none", adding |-> {},
   help |-> "none", helpId |-> 0, check |-> NoCheck, exit |-> NoExit,
   rm |-> "none", pending |-> NoResponse, response |-> NoResponse]

\* parseCommandLineArgs: the directory is kept when --generator-dir was given
\* and mkdirSync made it (or found it).
parseCommandLineArgs(flagGiven, mkdirOk) ==
  IF flagGiven /\ mkdirOk THEN PersistDir ELSE NoDir

Init ==
  /\ build \in {"index.ts", "part_002"}
  /\ \E flagGiven \in BOOLEAN, mkdirOk \in BOOLEAN :
       persistentGeneratorDir =
         IF build = "part_002"
           THEN parseCommandLineArgs(flagGiven, mkdirOk)
           ELSE NoDir
  /\ disk = IF persistentGeneratorDir = NoDir THEN {} ELSE {PersistDir}
  /\ \E kept \in KeptEntries :
       files = [d \in Dirs |->
                  IF d = PersistDir /\ persistentGeneratorDir # NoDir
                    THEN kept ELSE {}]
  /\ made = 0
  /\ processCwd = "/server"
  /\ calls = 0
  /\ inv = [i \in Inv |-> Idle]
  /\ probe = [kind |-> "none"]

\* cleanup of part_002 returns at once for the persistent directory.
cleanupSkips(dir) ==
  persistentGeneratorDir # NoDir /\ dir = persistentGeneratorDir

\* A variant of Finish that returns without running cleanup;
\* TempDirGoneUnlessRemovalFailed must notice it.
FinishNoCleanup(rec, result) ==
  [rec EXCEPT !.pc = "done", !.response = Returned(result)]

\* The end of runYeomanGenerator and getGeneratorOptions: the result is held
\* while the finally block runs cleanup, then the handler returns it.
Finish(rec, result) ==
  IF rec.shouldCleanup /\ ~cleanupSkips(rec.genDir)
    THEN [rec EXCEPT !.pc = "cleanup", !.pending = Returned(result)]
    ELSE [rec EXCEPT !.pc = "done", !.response = Returned(result)]

\* Spawn the help process.
SpawnHelp(rec) == [rec EXCEPT !.pc = "help", !.procs = @ \cup {"help"}]

\* A variant of SpawnYo that does not wait for the generator process: the
\* invocation goes on to its end while the process runs.
SpawnYoUnawaited(rec) ==
  Finish([rec EXCEPT !.procs = @ \cup {"yo"}],
         [NoResult EXCEPT !.success = TRUE])

\* Spawn the generator process.
SpawnYo(rec) ==
  [rec EXCEPT !.pc = "yo", !.procs = @ \cup {"yo"},
              !.yoArgs = yoArgs(rec.genDir, rec.gen, rec.args, rec.options)]

\* A variant of InstallStep that installs without looking;
\* InstallOnlyWhenAbsent must notice it.
InstallStepAlways(rec, f) ==
  [rec EXCEPT !.pc = "install", !.procs = @ \cup {"npm"},
              !.adding = {"yo", rec.gen} \ f[rec.genDir]]

\* The existence checks and what follows them: install when the generator or
\* yo is absent, otherwise go on to the help. npm finds the packages that are
\* absent when it starts and sets out to add them.
InstallStep(rec, f) ==
  LET needsInstall == rec.gen \notin f[rec.genDir] \/ "yo" \notin f[rec.genDir]
  IN IF needsInstall
       THEN [rec EXCEPT !.pc = "install", !.procs = @ \cup {"npm"},
                        !.adding = {"yo", rec.gen} \ f[rec.genDir]]
       ELSE SpawnHelp(rec)

\* Write the manifest when there is none.
ManifestStep(rec, f) ==
  IF "package.json" \notin f[rec.genDir]
    THEN [rec EXCEPT !.pc = "writeManifest"]
    ELSE InstallStep(rec, f)

\* What follows getGeneratorDir: runYeomanGenerator first makes the target
\* directory, getGeneratorOptions goes to the manifest.
AfterProvision(rec, f) ==
  IF rec.tool = "yeoman_generate"
    THEN [rec EXCEPT !.pc = "mkdirCwd"]
    ELSE ManifestStep(rec, f)

\* A variant of getGeneratorDir that makes a temporary directory even when a
\* persistent one is configured; PersistentDirAlwaysUsed must notice it.
getGeneratorDirAlwaysTemp(rec, f) == [rec EXCEPT !.pc = "mkdtemp"]

\* getGeneratorDir and the computation of shouldCleanup.
getGeneratorDir(rec, f) ==
  IF persistentGeneratorDir # NoDir
    THEN AfterProvision(
           [rec EXCEPT !.genDir = persistentGeneratorDir,
                       !.shouldCleanup = FALSE], f)
    ELSE [rec EXCEPT !.pc = "mkdtemp"]

\* The handler: validation, then the start of the operation.
Call(i, req) ==
  /\ inv[i].pc = "idle"
  /\ calls < MaxCalls
  /\ calls' = calls + 1
  /\ LET issues == ZodIssues(build, req)
         rec == [Idle EXCEPT !.tool = req.tool, !.req = req]
     IN inv' = [inv EXCEPT ![i] =
          IF req.tool \notin KnownTools(build)
            THEN [rec EXCEPT !.pc = "done",
                             !.response = Thrown("Error executing tool", "Unknown tool")]
          ELSE IF issues # <<>>
            THEN [rec EXCEPT !.pc = "done",
                             !.response = [Thrown("Invalid arguments", "ZodError")
                                             EXCEPT !.issues = issues]]
          ELSE IF req.tool = "yeoman_search_templates"
            THEN [rec EXCEPT !.pc = "search"]
          ELSE IF build = "index.ts"
            THEN [rec EXCEPT !.pc = "ix_mkdtemp",
                             !.gen = req.generatorName.s,
                             !.cwd = req.cwd.s,
                             !.options = req.options.entries]
          ELSE IF req.tool = "yeoman_get_generator_options"
            THEN getGeneratorDir([rec EXCEPT !.gen = req.generatorName.s], files)
          ELSE getGeneratorDir(
                 [rec EXCEPT !.gen = req.generatorName.s,
                             !.cwd = req.cwd.s,
                             !.options = mergedOptions(req),
                             !.args = allPositionalArgs(req)], files)]
  /\ UNCHANGED <<build, persistentGeneratorDir, disk, files, made, processCwd,
                 probe>>

\* axios.get answers or fails; searchYeomanTemplates rethrows a failure.
SearchDone(i, ok) ==
  /\ inv[i].pc = "search"
  /\ inv' = [inv EXCEPT ![i] =
       [@ EXCEPT !.pc = "done",
                 !.response = IF ok
                                THEN Returned([NoResult EXCEPT !.success = TRUE])
                                ELSE Thrown("Error executing tool", "search failed")]]
  /\ UNCHANGED <<build, persistentGeneratorDir, disk, files, made, processCwd,
                 calls, probe>>

\* A variant of createTempDir that gives every caller the same directory;
\* WorkspacesDistinct must notice it.
createTempDirSameName(n) == 1

\* createTempDir after n earlier calls: fs.mkdtemp makes a directory of a
\* name that no directory has yet (directory n + 1 of the model).
createTempDir(n) == n + 1

\* fs.mkdtemp answers. It is awaited before the try block, so its failure
\* leaves runYeomanGenerator / getGeneratorOptions as a rejection.
MkdtempDone(i, ok) ==
  /\ inv[i].pc = "mkdtemp"
  /\ IF ok
       THEN /\ made' = made + 1
            /\ disk' = disk \cup {createTempDir(made)}
            /\ inv' = [inv EXCEPT ![i] =
                 AfterProvision([@ EXCEPT !.genDir = createTempDir(made),
                                          !.shouldCleanup = TRUE], files)]
       ELSE /\ inv' = [inv EXCEPT ![i] =
                 [@ EXCEPT !.pc = "done",
                           !.response = Thrown("Error executing tool", "mkdtemp failed")]]
            /\ UNCHANGED <<made, disk>>
  /\ UNCHANGED <<build, persistentGeneratorDir, files, processCwd, calls, probe>>

Unexpected == [NoResult EXCEPT !.error = "Unexpected error"]

\* fs.mkdir(cwd, { recursive: true }) answers.
MkdirCwdDone(i, ok) ==
  /\ inv[i].pc = "mkdirCwd"
  /\ inv' = [inv EXCEPT ![i] =
       IF ok THEN ManifestStep(@, files) ELSE Finish(@, Unexpected)]
  /\ UNCHANGED <<build, persistentGeneratorDir, disk, files, made, processCwd,
                 calls, probe>>

\* fs.writeFile(packageJsonPath, ..) answers.
WriteManifestDone(i, ok) ==
  /\ inv[i].pc = "writeManifest"
  /\ IF ok
       THEN /\ files' = [files EXCEPT ![inv[i].genDir] = @ \cup {"package.json"}]
            /\ inv' = [inv EXCEPT ![i] = InstallStep(@, files')]
       ELSE /\ inv' = [inv EXCEPT ![i] = Finish(@, Unexpected)]
            /\ UNCHANGED files
  /\ UNCHANGED <<build, persistentGeneratorDir, disk, made, processCwd, calls,
                 probe>>

InstallError(generatorName) ==
  [NoResult EXCEPT
     !.error = "Failed to install generator",
     !.generator = generatorName,
     !.suggestions = <<Suggest("Make sure generator exists on npm", <<>>)>>]

\* A variant of InstallFailed that goes on to the help process after a failed
\* install; InstallFailureEndsInvocation must notice it.
InstallFailedGoesOn(rec) == SpawnHelp([rec EXCEPT !.install = "failed"])

\* catch (installError): return the install failure; nothing else is started.
InstallFailed(rec) ==
  Finish([rec EXCEPT !.install = "failed"], InstallError(rec.gen))

\* npm install yo generator-<name> exits: both packages are there after a
\* success. A failure leaves some of the packages it set out to add (left)
\* and takes the others away again, also when another npm process, at work
\* in the same directory at the same time, has put them there: nothing keeps
\* two installs in one directory apart, and npm does not expect the other.
InstallDone(i, ok, left) ==
  /\ inv[i].pc = "install"
  /\ left \subseteq inv[i].adding
  /\ IF ok
       THEN /\ files' = [files EXCEPT ![inv[i].genDir] = @ \cup {"yo", inv[i].gen}]
            /\ inv' = [inv EXCEPT ![i] = SpawnHelp([@ EXCEPT !.install = "ok"])]
       ELSE /\ left # {"yo", inv[i].gen}
            /\ files' = [files EXCEPT ![inv[i].genDir] =
                           (@ \ inv[i].adding) \cup left]
            /\ inv' = [inv EXCEPT ![i] = InstallFailed(@)]
  /\ UNCHANGED <<build, persistentGeneratorDir, disk, made, processCwd, calls,
                 probe>>

\* The result of getGeneratorOptions for a parsed help text.
OptionsResult(helpInfo) ==
  [NoResult EXCEPT
     !.success = TRUE,
     !.args = helpInfo.args,
     !.options =
       [k \in 1..Len(helpInfo.options) |->
          [name |-> helpInfo.options[k].name,
           flag |-> helpInfo.options[k].flag,
           description |-> helpInfo.options[k].description,
           required |-> isOptionRequired(helpInfo.options[k]),
           enumValues |-> extractEnumValues(helpInfo.options[k].description)]]]

\* OptionsResult of each help text, computed once.
OptionsResults ==
  <<OptionsResult(HelpInfos[1]), OptionsResult(HelpInfos[2])>>

MissingArgumentsResult(check) ==
  [NoResult EXCEPT
     !.error = "Missing required arguments",
     !.missingRequired = check.missingRequired,
     !.suggestions =
       [k \in 1..Len(check.missingRequired) |->
          Suggest("Please provide a value for", check.missingRequired[k].name)]]

MissingOptionsResult(check) ==
  [NoResult EXCEPT
     !.error = "Missing required options",
     !.missingOptions = check.missingOptions,
     !.suggestions =
       [k \in 1..Len(check.missingOptions) |->
          Suggest("--", check.missingOptions[k].name)]]

RequiredArgs(helpInfo) ==
  SelectSeq(helpInfo.args, LAMBDA arg : arg.required)

RequiredArgumentsResult(helpInfo) ==
  [NoResult EXCEPT
     !.error = "Required arguments missing",
     !.missingRequired = RequiredArgs(helpInfo),
     !.suggestions =
       <<Suggest("This generator requires arguments", <<>>),
         Suggest("Example usage", <<>>)>>]

\* A variant of AfterHelp that records the requirement check but spawns the
\* generator whatever it reports; PreflightGate must notice it.
AfterHelpNoGate(rec, h) ==
  SpawnYo([rec EXCEPT
             !.help = "ok", !.helpId = h, !.checkedArgs = rec.args,
             !.check = checkRequiredArguments(HelpInfos[h], rec.args, rec.options)])

\* runYeomanGenerator once the help text is there: the two pre-flight
\* returns, the second look at the required arguments, then the spawn.
AfterHelp(rec, h) ==
  LET Gate(helpInfo, check, seen) ==
        IF Len(check.missingRequired) > 0
          THEN Finish(seen, MissingArgumentsResult(check))
        ELSE IF Len(check.missingOptions) > 0
          THEN Finish(seen, MissingOptionsResult(check))
        ELSE IF RequiredArgs(helpInfo) # <<>> /\ Len(rec.args) = 0
          THEN Finish(seen, RequiredArgumentsResult(helpInfo))
        ELSE SpawnYo(seen)
      Checked(helpInfo, check) ==
        Gate(helpInfo, check,
             [rec EXCEPT !.help = "ok", !.helpId = h, !.checkedArgs = rec.args,
                         !.check = check])
      Parsed(helpInfo) ==
        Checked(helpInfo,
                checkRequiredArguments(helpInfo, rec.args, rec.options))
  IN Parsed(HelpInfos[h])

\* A variant of HelpFailed that ends the invocation when the help process
\* fails; HelpFailureNotFatal must notice it.
HelpFailedIsFatal(rec) ==
  Finish([rec EXCEPT !.help = "failed"],
         [NoResult EXCEPT !.error = "Failed to get generator options"])

\* A variant of HelpFailed for a getGeneratorHelp that does not reject when
\* the help process exits with another code than 0: the invocation waits for
\* a promise that nothing settles.
HelpFailedNeverSettles(rec) == [rec EXCEPT !.help = "failed", !.pc = "pending"]

\* catch (helpError): log it and go on without help information. helpInfo
\* stays null, so the second look at the required arguments is skipped.
HelpFailed(rec) == SpawnYo([rec EXCEPT !.help = "failed"])

\* The help process closes with exit code 0 (zero) and the text HelpTexts[h]
\* on its stdout, or with another code.
HelpExit(i, zero, h) ==
  /\ inv[i].pc = "help"
  /\ h \in 1..Len(HelpTexts)
  /\ inv' = [inv EXCEPT ![i] =
       IF @.tool = "yeoman_generate"
         THEN IF zero
                THEN AfterHelp(@, h)
                ELSE HelpFailed(@)
         ELSE IF zero
                THEN Finish([@ EXCEPT !.help = "ok", !.helpId = h],
                            OptionsResults[h])
                ELSE Finish([@ EXCEPT !.help = "failed"],
                            [NoResult EXCEPT
                               !.error = "Failed to get generator options"])]
  /\ UNCHANGED <<build, persistentGeneratorDir, disk, files, made, processCwd,
                 calls, probe>>

\* The generator process closes with an exit code and the output collected
\* from stdout and stderr. For a success, .yo-rc.json is read when it exists.
YoExit(i, zero, output, yoRcExists) ==
  /\ inv[i].pc = "yo"
  /\ LET rec == [inv[i] EXCEPT
                   !.exit = [kind |-> "close", zero |-> zero, output |-> output]]
         Closed(result) ==
           IF result.success /\ yoRcExists
             THEN [rec EXCEPT !.pc = "readYoRc"]
             ELSE Finish(rec, result)
     IN inv' = [inv EXCEPT ![i] = Closed(Classify(inv[i].gen, output, zero))]
  /\ UNCHANGED <<build, persistentGeneratorDir, disk, files, made, processCwd,
                 calls, probe>>

\* The generator process emits 'error' (it could not be spawned).
YoError(i) ==
  /\ inv[i].pc = "yo"
  /\ inv' = [inv EXCEPT ![i] =
       Finish([@ EXCEPT !.exit = [NoExit EXCEPT !.kind = "error"]],
              [NoResult EXCEPT !.error = "Failed to run generator"])]
  /\ UNCHANGED <<build, persistentGeneratorDir, disk, files, made, processCwd,
                 calls, probe>>

\* fs.readFile(.yo-rc.json) answers: the file has the generator's key, has it
\* not, or cannot be read or parsed (caught and logged).
ReadYoRcDone(i, outcome) ==
  /\ inv[i].pc = "readYoRc"
  /\ outcome \in {"key", "no key", "unreadable"}
  /\ inv' = [inv EXCEPT ![i] =
       Finish(@, [Classify(@.gen, @.exit.output, @.exit.zero) EXCEPT
                    !.generatorConfigExists = (outcome = "key")])]
  /\ UNCHANGED <<build, persistentGeneratorDir, disk, files, made, processCwd,
                 calls, probe>>

\* A variant of CleanupDone in which a failed removal is raised to the
\* handler; ReleaseKeepsResult must notice it.
CleanupDoneRaises(i, ok) ==
  /\ inv[i].pc \in {"cleanup", "ix_cleanup"}
  /\ IF ok
       THEN /\ disk' = disk \ {inv[i].genDir}
            /\ files' = [files EXCEPT ![inv[i].genDir] = {}]
       ELSE UNCHANGED <<disk, files>>
  /\ inv' = [inv EXCEPT ![i] =
       [@ EXCEPT !.pc = "done",
                 !.rm = IF ok THEN "removed" ELSE "failed",
                 !.response = IF ok
                                THEN inv[i].pending
                                ELSE Thrown("Error executing tool", "rm failed")]]
  /\ UNCHANGED <<build, persistentGeneratorDir, made, processCwd, calls, probe>>

\* fs.rm(dir, { recursive: true, force: true }) answers; cleanup catches and
\* logs its failure. Then the held result goes to the caller.
CleanupDone(i, ok) ==
  /\ inv[i].pc \in {"cleanup", "ix_cleanup"}
  /\ IF ok
       THEN /\ disk' = disk \ {inv[i].genDir}
            /\ files' = [files EXCEPT ![inv[i].genDir] = {}]
       ELSE UNCHANGED <<disk, files>>
  /\ inv' = [inv EXCEPT ![i] =
       [@ EXCEPT !.pc = "done",
                 !.rm = IF ok THEN "removed" ELSE "failed",
                 !.response = inv[i].pending]]
  /\ UNCHANGED <<build, persistentGeneratorDir, made, processCwd, calls, probe>>

\* The response has gone to the client.
Respond(i) ==
  /\ inv[i].pc = "done"
  /\ inv' = [inv EXCEPT ![i] = Idle]
  /\ UNCHANGED <<build, persistentGeneratorDir, disk, files, made, processCwd,
                 calls, probe>>

(***************************************************************************)
(* runYeomanGenerator of index.ts                                          *)
(***************************************************************************)
\* catch: rethrow as 'Failed to run generator'; finally: cleanup when tempDir
\* is set. The handler wraps the error in 'Error executing tool'.
IndexFail(rec) ==
  IF rec.genDir # NoDir
    THEN [rec EXCEPT !.pc = "ix_cleanup",
                     !.pending = Thrown("Error executing tool", "Failed to run generator")]
    ELSE [rec EXCEPT !.pc = "done",
                     !.response = Thrown("Error executing tool", "Failed to run generator")]

IndexMkdtempDone(i, ok) ==
  /\ inv[i].pc = "ix_mkdtemp"
  /\ IF ok
       THEN /\ made' = made + 1
            /\ disk' = disk \cup {createTempDir(made)}
            /\ inv' = [inv EXCEPT ![i] =
                 [@ EXCEPT !.pc = "ix_writeManifest",
                           !.genDir = createTempDir(made)]]
       ELSE /\ inv' = [inv EXCEPT ![i] = IndexFail(@)]
            /\ UNCHANGED <<made, disk>>
  /\ UNCHANGED <<build, persistentGeneratorDir, files, processCwd, calls, probe>>

IndexWriteManifestDone(i, ok) ==
  /\ inv[i].pc = "ix_writeManifest"
  /\ IF ok
       THEN /\ files' = [files EXCEPT ![inv[i].genDir] = @ \cup {"package.json"}]
            /\ inv' = [inv EXCEPT ![i] =
                 [@ EXCEPT !.pc = "ix_install", !.procs = @ \cup {"npm"}]]
       ELSE /\ inv' = [inv EXCEPT ![i] = IndexFail(@)]
            /\ UNCHANGED files
  /\ UNCHANGED <<build, persistentGeneratorDir, disk, made, processCwd, calls,
                 probe>>

\* npm install generator-<name> exits; after a success createEnv() and
\* process.chdir(cwd), which throws when cwd is not a directory.
IndexInstallDone(i, ok, chdirOk) ==
  /\ inv[i].pc = "ix_install"
  /\ IF ok
       THEN /\ files' = [files EXCEPT ![inv[i].genDir] = @ \cup {inv[i].gen}]
            /\ IF chdirOk
                 THEN /\ processCwd' = inv[i].cwd
                      /\ inv' = [inv EXCEPT ![i] =
                           [@ EXCEPT !.pc = "ix_lookup", !.install = "ok"]]
                 ELSE /\ inv' = [inv EXCEPT ![i] =
                           IndexFail([@ EXCEPT !.install = "ok"])]
                      /\ UNCHANGED processCwd
       ELSE /\ inv' = [inv EXCEPT ![i] = IndexFail([@ EXCEPT !.install = "failed"])]
            /\ UNCHANGED <<files, processCwd>>
  /\ UNCHANGED <<build, persistentGeneratorDir, disk, made, calls, probe>>

IndexLookupDone(i, ok) ==
  /\ inv[i].pc = "ix_lookup"
  /\ inv' = [inv EXCEPT ![i] =
       IF ok THEN [@ EXCEPT !.pc = "ix_run"] ELSE IndexFail(@)]
  /\ UNCHANGED <<build, persistentGeneratorDir, disk, files, made, processCwd,
                 calls, probe>>

IndexRunDone(i, ok) ==
  /\ inv[i].pc = "ix_run"
  /\ inv' = [inv EXCEPT ![i] =
       IF ok
         THEN [@ EXCEPT !.pc = "ix_cleanup",
                        !.pending = Returned([NoResult EXCEPT !.success = TRUE])]
         ELSE IndexFail(@)]
  /\ UNCHANGED <<build, persistentGeneratorDir, disk, files, made, processCwd,
                 calls, probe>>

Next ==
  \/ \E i \in Inv, req \in Requests : Call(i, req)
  \/ \E i \in Inv, ok \in BOOLEAN : SearchDone(i, ok)
  \/ \E i \in Inv, ok \in BOOLEAN : MkdtempDone(i, ok)
  \/ \E i \in Inv, ok \in BOOLEAN : MkdirCwdDone(i, ok)
  \/ \E i \in Inv, ok \in BOOLEAN : WriteManifestDone(i, ok)
  \/ \E i \in Inv, ok \in BOOLEAN, left \in {{}, {"yo"}} : InstallDone(i, ok, left)
  \/ \E i \in Inv, zero \in BOOLEAN, h \in 1..Len(HelpTexts) : HelpExit(i, zero, h)
  \/ \E i \in Inv, zero \in BOOLEAN, output \in RunOutputs, yoRcExists \in BOOLEAN :
       YoExit(i, zero, output, yoRcExists)
  \/ \E i \in Inv : YoError(i)
  \/ \E i \in Inv, outcome \in {"key", "no key", "unreadable"} : ReadYoRcDone(i, outcome)
  \/ \E i \in Inv, ok \in BOOLEAN : CleanupDone(i, ok)
  \/ \E i \in Inv : Respond(i)
  \/ \E i \in Inv, ok \in BOOLEAN : IndexMkdtempDone(i, ok)
  \/ \E i \in Inv, ok \in BOOLEAN : IndexWriteManifestDone(i, ok)
  \/ \E i \in Inv, ok \in BOOLEAN, chdirOk \in BOOLEAN : IndexInstallDone(i, ok, chdirOk)
  \/ \E i \in Inv, ok \in BOOLEAN : IndexLookupDone(i, ok)
  \/ \E i \in Inv, ok \in BOOLEAN : IndexRunDone(i, ok)

Spec == Init /\ [][Next]_vars

(***************************************************************************)
(* Properties of the server                                                *)
(***************************************************************************)
\* What an invocation gives back: the response once it is done, before that
\* the result held while cleanup runs.
Outcome(rec) == IF rec.pc = "done" THEN rec.response ELSE rec.pending

Ended(rec) == rec.pc \in {"cleanup", "ix_cleanup", "done"}

Operations == {"yeoman_generate", "yeoman_get_generator_options"}

\* C1, as the specification states it: with no persistent directory, the
\* temporary directory made for an invocation is not on disk once the
\* invocation has completed, however it ended.
TempDirGoneWhenDone ==
  \A i \in Inv :
    (/\ persistentGeneratorDir = NoDir
     /\ inv[i].pc = "done"
     /\ inv[i].genDir # NoDir)
      => inv[i].genDir \notin disk

\* C1, amended: with no persistent directory, every completed invocation that
\* made a temporary directory has run its recursive removal, and the directory
\* is not on disk unless that removal failed (cleanup logs the failure and
\* goes on).
TempDirGoneUnlessRemovalFailed ==
  \A i \in Inv :
    (/\ persistentGeneratorDir = NoDir
     /\ inv[i].pc = "done"
     /\ inv[i].genDir # NoDir)
      => /\ inv[i].rm \in {"removed", "failed"}
         /\ inv[i].rm = "removed" => inv[i].genDir \notin disk

\* An invocation with a temporary directory has completed with a classified
\* failure after the generator ran, and its directory was removed.
TempDirRemovedAfterFailure ==
  \E i \in Inv :
    /\ persistentGeneratorDir = NoDir
    /\ inv[i].pc = "done"
    /\ inv[i].genDir # NoDir
    /\ inv[i].rm = "removed"
    /\ inv[i].exit.kind = "close"
    /\ ~inv[i].response.result.success
    /\ inv[i].genDir \notin disk

\* C2: when a persistent directory was configured at startup, every
\* invocation works in exactly that directory, no temporary directory is
\* ever made, no removal is ever run, and the directory is on disk in every
\* state.
PersistentDirAlwaysUsed ==
  persistentGeneratorDir # NoDir =>
    /\ persistentGeneratorDir \in disk
    /\ made = 0
    /\ disk = {persistentGeneratorDir}
    /\ \A i \in Inv :
         /\ inv[i].pc # "mkdtemp"
         /\ inv[i].rm = "none"
         /\ (inv[i].tool \in Operations /\ inv[i].pc # "done")
              => inv[i].genDir = persistentGeneratorDir
         /\ inv[i].genDir \in {NoDir, persistentGeneratorDir}

\* With a persistent directory, a second invocation has completed in it after
\* the generator ran.
PersistentDirReused ==
  \E i \in Inv :
    /\ persistentGeneratorDir # NoDir
    /\ calls = MaxCalls
    /\ inv[i].pc = "done"
    /\ inv[i].genDir = persistentGeneratorDir
    /\ inv[i].exit.kind = "close"
    /\ inv[i].response.kind = "returned"

\* C3, as the specification states it: runYeomanGenerator and
\* getGeneratorOptions never throw to the handler; the only errors a tool
\* call ends with are those of validation, of an unknown tool and of the
\* search.
OperationsNeverThrow ==
  \A i \in Inv :
    inv[i].response.kind = "thrown"
      => inv[i].response.cause \in {"ZodError", "Unknown tool", "search failed"}

\* C4: in a run invocation where help was obtained and the requirement check
\* reports a missing required argument or option, the generator process is
\* never spawned, and the invocation ends with a success:false result that
\* carries the missing items and suggestions for them.
PreflightGate ==
  \A i \in Inv :
    (/\ inv[i].tool = "yeoman_generate"
     /\ inv[i].help = "ok"
     /\ \/ inv[i].check.missingRequired # <<>>
        \/ inv[i].check.missingOptions # <<>>)
      => /\ "yo" \notin inv[i].procs
         /\ Ended(inv[i])
         /\ Outcome(inv[i]).kind = "returned"
         /\ ~Outcome(inv[i]).result.success
         /\ Outcome(inv[i]).result.suggestions # <<>>
         /\ IF inv[i].check.missingRequired # <<>>
              THEN /\ Outcome(inv[i]).result.error = "Missing required arguments"
                   /\ Outcome(inv[i]).result.missingRequired
                        = inv[i].check.missingRequired
              ELSE /\ Outcome(inv[i]).result.error = "Missing required options"
                   /\ Outcome(inv[i]).result.missingOptions
                        = inv[i].check.missingOptions

\* A run invocation has completed where help was obtained and a required
\* option was reported missing.
PreflightAborted ==
  \E i \in Inv :
    /\ inv[i].tool = "yeoman_generate"
    /\ inv[i].pc = "done"
    /\ inv[i].help = "ok"
    /\ inv[i].check.missingRequired = <<>>
    /\ inv[i].check.missingOptions # <<>>
    /\ inv[i].response.result.error = "Missing required options"

\* C7: in part_002, once the package-manager install has failed, the
\* invocation ends with a success:false result that names the generator and
\* suggests checking that the package exists on npm; neither the help
\* process nor the generator process is spawned; and a temporary directory
\* has had its removal run by the time the invocation is done.
InstallFailureEndsInvocation ==
  \A i \in Inv :
    (build = "part_002" /\ inv[i].install = "failed")
      => /\ inv[i].procs = {"npm"}
         /\ Ended(inv[i])
         /\ Outcome(inv[i]).kind = "returned"
         /\ ~Outcome(inv[i]).result.success
         /\ Outcome(inv[i]).result.error = "Failed to install generator"
         /\ Outcome(inv[i]).result.generator = inv[i].gen
         /\ Outcome(inv[i]).result.suggestions
              = <<Suggest("Make sure generator exists on npm", <<>>)>>
         /\ (inv[i].pc = "done" /\ inv[i].genDir # persistentGeneratorDir)
              => inv[i].rm # "none"

\* An invocation whose install failed has completed in a temporary directory
\* that has been removed.
InstallFailedAndCleaned ==
  \E i \in Inv :
    /\ build = "part_002"
    /\ inv[i].install = "failed"
    /\ inv[i].pc = "done"
    /\ inv[i].genDir \notin {NoDir, persistentGeneratorDir}
    /\ inv[i].genDir \notin disk
    /\ inv[i].response.result.generator = inv[i].gen

\* C8: in a run invocation whose help process exited non-zero, no
\* requirement check is made, the generator process is spawned all the same,
\* and the result is the one the classification of the generator's exit and
\* output gives (completed by the look at .yo-rc.json), or 'Failed to run
\* generator' when the process could not be spawned.
HelpFailureNotFatal ==
  \A i \in Inv :
    (inv[i].tool = "yeoman_generate" /\ inv[i].help = "failed")
      => /\ inv[i].check = NoCheck
         /\ "yo" \in inv[i].procs
         /\ inv[i].pc \in {"yo", "readYoRc", "cleanup", "done"}
         /\ Ended(inv[i]) =>
              /\ Outcome(inv[i]).kind = "returned"
              /\ inv[i].exit.kind \in {"close", "error"}
              /\ inv[i].exit.kind = "error"
                   => Outcome(inv[i]).result.error = "Failed to run generator"
              /\ inv[i].exit.kind = "close"
                   => [Outcome(inv[i]).result EXCEPT !.generatorConfigExists = FALSE]
                        = Classify(inv[i].gen, inv[i].exit.output, inv[i].exit.zero)

\* A run invocation whose help process failed has completed with the
\* generator's success.
RanWithoutHelp ==
  \E i \in Inv :
    /\ inv[i].tool = "yeoman_generate"
    /\ inv[i].help = "failed"
    /\ inv[i].pc = "done"
    /\ inv[i].exit.kind = "close"
    /\ inv[i].response.result.success

\* The fields of a request, among those the build declares for its tool, that
\* do not have the declared type.
Malformed(b, req) ==
  LET strings ==
        CASE req.tool = "yeoman_search_templates" -> {"query"}
          [] req.tool = "yeoman_get_generator_options" -> {"generatorName"}
          [] req.tool = "yeoman_generate" /\ b = "index.ts" ->
               {"generatorName", "cwd"}
          [] req.tool = "yeoman_generate" /\ b = "part_002" ->
               {"generatorName", "cwd", "appName", "version"}
          [] OTHER -> {}
  IN {f \in strings : req[f].t # "string"}
       \cup {f \in {"options"} :
               /\ req.tool = "yeoman_generate"
               /\ req.options.t \notin {"undefined", "object"}}
       \cup {f \in {"pageSize"} :
               /\ req.tool = "yeoman_search_templates"
               /\ req.pageSize.t \notin {"undefined", "number"}}
       \cup {f \in {"args"} :
               /\ req.tool = "yeoman_generate" /\ b = "part_002"
               /\ \/ req.args.t \notin {"undefined", "array"}
                  \/ \E k \in 1..Len(req.args.items) :
                       req.args.items[k].t # "string"}

\* C9: a call of a known tool whose parameters do not have the declared shape
\* ends at once with an 'Invalid arguments' error whose entries name exactly
\* the offending fields, each with a message; no directory has been made for
\* it and no process spawned.
InvalidArgumentsFirst ==
  \A i \in Inv :
    (/\ inv[i].pc # "idle"
     /\ inv[i].tool \in KnownTools(build)
     /\ Malformed(build, inv[i].req) # {})
      => /\ inv[i].pc = "done"
         /\ inv[i].response.kind = "thrown"
         /\ inv[i].response.error = "Invalid arguments"
         /\ {Head(inv[i].response.issues[k].path) :
               k \in 1..Len(inv[i].response.issues)}
              = Malformed(build, inv[i].req)
         /\ \A k \in 1..Len(inv[i].response.issues) :
              inv[i].response.issues[k].message # ""
         /\ inv[i].genDir = NoDir
         /\ inv[i].procs = {}
         /\ inv[i].rm = "none"

\* A yeoman_generate call with two offending fields was rejected while the
\* other call was at work with a process running.
RejectedTwoFields ==
  \E i \in Inv, j \in Inv :
    /\ inv[i].pc = "done"
    /\ inv[i].tool = "yeoman_generate"
    /\ Malformed(build, inv[i].req) = {"generatorName", "cwd"}
    /\ Len(inv[i].response.issues) = 2
    /\ inv[j].pc = "yo"

(***************************************************************************)
(* The classification applied alone to bounded outputs                     *)
(***************************************************************************)
\* The pieces that an output is put together from.
Pieces ==
  << <<"?">>, <<" ">>, <<"\n">>, <<"o", "k">>, <<"(">>, <<">">>,
     NotFoundMarker, InvalidVersionMarker >>

\* The number of pieces in an output.
MaxPieces == 3

RECURSIVE Joined(_, _)
\* The pieces picks[k], picks[k+1], .. one after the other.
Joined(picks, k) ==
  IF k > Len(picks) THEN <<>> ELSE Pieces[picks[k]] \o Joined(picks, k + 1)

Picks == UNION {[1..n -> 1..Len(Pieces)] : n \in 0..MaxPieces}

Quiet ==
  /\ build = "part_002"
  /\ persistentGeneratorDir = NoDir
  /\ disk = {}
  /\ files = [d \in Dirs |-> {}]
  /\ made = 0
  /\ processCwd = "/server"
  /\ calls = 0
  /\ inv = [i \in Inv |-> Idle]

InitClassify ==
  /\ Quiet
  /\ \E picks \in Picks, exitedZero \in BOOLEAN :
       probe = [kind |-> "classify", output |-> Joined(picks, 1),
                exitedZero |-> exitedZero, applied |-> FALSE,
                result |-> NoResult]

\* The lines 687-764 applied to the output and exit code of the probe.
ApplyClassify ==
  /\ probe.kind = "classify"
  /\ ~probe.applied
  /\ probe' = [probe EXCEPT
                 !.applied = TRUE,
                 !.result = Classify("app", probe.output, probe.exitedZero)]
  /\ UNCHANGED <<build, persistentGeneratorDir, disk, files, made, processCwd,
                 calls, inv>>

NextClassify == ApplyClassify

SpecClassify == InitClassify /\ [][NextClassify]_vars

\* An interactive prompt marker, said without the regular expressions: the
\* output has a '?', and somewhere a '?' or a '>' is followed by a white-space
\* character and then by a word or white-space character.
PromptMarker(output) ==
  /\ \E p \in 1..Len(output) : output[p] = "?"
  /\ \E p \in 1..(Len(output) - 2) :
       /\ output[p] \in {"?", ">"}
       /\ output[p + 1] \in SpaceChars
       /\ output[p + 2] \in WordChars \cup SpaceChars

QuestionLines(output) ==
  {line \in {Split(output, "\n")[k] : k \in 1..Len(Split(output, "\n"))} :
     Len(line) >= 2 /\ line[1] = "?" /\ line[2] = " "}

\* C6, as the specification states it: when the output has a line starting
\* with "? " and no not-found marker, the result is the interactive failure
\* and that line is, as it stands, an element of promptsDetected.
PromptLineReported ==
  (probe.applied /\ ~Includes(probe.output, NotFoundMarker)) =>
    \A line \in QuestionLines(probe.output) :
      /\ ~probe.result.success
      /\ probe.result.error
           = "Generator entered interactive mode - missing required options"
      /\ \E k \in 1..Len(probe.result.promptsDetected) :
           probe.result.promptsDetected[k] = line

(***************************************************************************)
(* Parsing and the requirement check applied alone to help texts           *)
(***************************************************************************)
S_OptionsHeader == <<"O", "p", "t", "i", "o", "n", "s", ":", "\n">>
S_ArgumentsHeader ==
  <<"A", "r", "g", "u", "m", "e", "n", "t", "s", ":", "\n">>

UsageArgFirst ==
  <<"U", "s", "a", "g", "e", ":", "\n", " ", " ", "y", "o", " ", "a", "p",
    "p", " ", "[", "<", "a", "p", "p", "N", "a", "m", "e", ">", "]", " ",
    "[", "o", "p", "t", "i", "o", "n", "s", "]", "\n", "\n">>

UsageOptionsFirst ==
  <<"U", "s", "a", "g", "e", ":", "\n", " ", " ", "y", "o", " ", "a", "p",
    "p", " ", "[", "o", "p", "t", "i", "o", "n", "s", "]", " ", "[", "<",
    "a", "p", "p", "N", "a", "m", "e", ">", "]", "\n", "\n">>

\* The usage part: none, or the argument before or after [options].
UsageParts == << <<>>, UsageArgFirst, UsageOptionsFirst >>

HelpLine ==
  <<" ", " ", "-", "h", ",", " ", "-", "-", "h", "e", "l", "p", " ", " ",
    "#", " ", "P", "r", "i", "n", "t", " ", "h", "e", "l", "p", "\n">>

\* The line of --help: absent or present.
HelpLines == << <<>>, HelpLine >>

StyleLinePlain ==
  <<" ", " ", "-", "-", "s", "t", "y", "l", "e", " ", " ", "#", " ", "S",
    "t", "y", "l", "e", " ", "[", "c", "s", "s", "|", "s", "a", "s", "s",
    "]", "\n">>

StyleLineOptional ==
  <<" ", " ", "-", "-", "s", "t", "y", "l", "e", " ", " ", "#", " ", "O",
    "p", "t", "i", "o", "n", "a", "l", " ", "s", "t", "y", "l", "e", " ",
    "[", "c", "s", "s", "|", "s", "a", "s", "s", "]", "\n">>

StyleLineLong ==
  <<" ", " ", "-", "-", "s", "t", "y", "l", "e", " ", " ", "#", " ", "S",
    "t", "y", "l", "e", " ", "t", "o", " ", "u", "s", "e", " ", "[", "c",
    "s", "s", "|", "s", "a", "s", "s", "]", " ", "p", "l", "e", "a", "s",
    "e", "\n">>

\* The line of --style: its description lists the choices [css|sass] and
\* gives no default.
StyleLines == <<StyleLinePlain, StyleLineOptional, StyleLineLong>>

ArgLineFull ==
  <<" ", " ", "a", "p", "p", "N", "a", "m", "e", " ", " ", "#", " ", "A",
    "p", "p", " ", "n", "a", "m", "e", " ", " ", "T", "y", "p", "e", ":",
    " ", "S", "t", "r", "i", "n", "g", " ", " ", "R", "e", "q", "u", "i",
    "r", "e", "d", ":", " ", "t", "r", "u", "e", "\n">>

ArgLineBare ==
  <<" ", " ", "a", "p", "p", "N", "a", "m", "e", " ", " ", "#", " ", "R",
    "e", "q", "u", "i", "r", "e", "d", ":", " ", "t", "r", "u", "e", "\n">>

\* The line of the required argument appName.
ArgLines == <<ArgLineFull, ArgLineBare>>

\* A help text in the format of yeoman: the usage, then the Options and the
\* Arguments sections in either order with an empty line between them.
ScenarioHelp(u, optionsFirst, h, s, a) ==
  LET options == S_OptionsHeader \o HelpLines[h] \o StyleLines[s]
      arguments == S_ArgumentsHeader \o ArgLines[a]
  IN UsageParts[u]
       \o (IF optionsFirst
             THEN options \o <<"\n">> \o arguments
             ELSE arguments \o <<"\n">> \o options)

InitCheck ==
  /\ Quiet
  /\ \E u \in 1..Len(UsageParts), optionsFirst \in BOOLEAN,
        h \in 1..Len(HelpLines), s \in 1..Len(StyleLines),
        a \in 1..Len(ArgLines) :
       probe = [kind |-> "check",
                helpOutput |-> ScenarioHelp(u, optionsFirst, h, s, a),
                applied |-> FALSE, check |-> NoCheck]

\* checkRequiredArguments(parseGeneratorHelp(helpOutput), [], {})
ApplyCheck ==
  /\ probe.kind = "check"
  /\ ~probe.applied
  /\ probe' = [probe EXCEPT
                 !.applied = TRUE,
                 !.check = checkRequiredArguments(
                             parseGeneratorHelp(probe.helpOutput), <<>>, <<>>)]
  /\ UNCHANGED <<build, persistentGeneratorDir, disk, files, made, processCwd,
                 calls, inv>>

NextCheck == ApplyCheck

SpecCheck == InitCheck /\ [][NextCheck]_vars

\* C10: for a help text that declares the required argument appName and the
\* option --style with the choices [css|sass] and no default, the
\* requirement check with no arguments and no options reports appName in
\* missingRequired and style in missingOptions with the enum values css, sass
\* in that order.
ScenarioCheckReportsBoth ==
  probe.applied =>
    /\ \E k \in 1..Len(probe.check.missingRequired) :
         probe.check.missingRequired[k].name = S_appName
    /\ \E k \in 1..Len(probe.check.missingOptions) :
         /\ probe.check.missingOptions[k].name = K_style
         /\ probe.check.missingOptions[k].enumValues.found
         /\ probe.check.missingOptions[k].enumValues.values = <<S_css, S_sass>>

\* The check was applied to a help text with a usage line, the --help option
\* and the --style option, and reported exactly one argument and one option.
ScenarioChecked ==
  /\ probe.applied
  /\ Len(probe.helpOutput) > 120
  /\ Len(probe.check.missingRequired) = 1
  /\ Len(probe.check.missingOptions) = 1

(***************************************************************************)
(* The generator's command line                                            *)
(***************************************************************************)
\* The caller's extra arguments of a request, as strings.
Extras(req) == [k \in 1..Len(req.args.items) |-> req.args.items[k].c]

\* The positional arguments in the command line of a spawned generator: what
\* stands between the generator's name and the first option or flag.
Positionals(rec) == SubSeq(rec.yoArgs, 3, 2 + Len(rec.args))

\* C11 as stated: the generator's positional arguments are the application
\* name, the version and the caller's extra arguments, in this order, and the
\* pre-flight check saw the same sequence.
PositionalArgsNameVersionExtras ==
  \A i \in Inv :
    (build = "part_002" /\ "yo" \in inv[i].procs) =>
      /\ Positionals(inv[i])
           = <<inv[i].req.appName.c, inv[i].req.version.c>> \o Extras(inv[i].req)
      /\ inv[i].help = "ok" => inv[i].checkedArgs = Positionals(inv[i])

\* C11: the generator's positional arguments are the application name and
\* the version, each only when it is not the empty string, and then the
\* caller's extra arguments in their order; the pre-flight check, when it
\* ran, saw the same sequence.
PositionalArgsInOrder ==
  \A i \in Inv :
    (build = "part_002" /\ "yo" \in inv[i].procs) =>
      /\ Positionals(inv[i])
           = SelectSeq(<<inv[i].req.appName.c, inv[i].req.version.c>>,
                       LAMBDA s : s # <<>>)
               \o Extras(inv[i].req)
      /\ Len(inv[i].yoArgs) >= 2 + Len(inv[i].args)
      /\ inv[i].help = "ok" => inv[i].checkedArgs = Positionals(inv[i])

\* A generator was spawned after the pre-flight check with the name, the
\* version and two extra arguments.
SpawnedWithExtras ==
  \E i \in Inv :
    /\ build = "part_002"
    /\ "yo" \in inv[i].procs
    /\ inv[i].help = "ok"
    /\ Len(Extras(inv[i].req)) = 2
    /\ Len(inv[i].checkedArgs) = 4

(***************************************************************************)
(* The command line applied alone to requests                              *)
(***************************************************************************)
K_no_interactive ==
  <<"n", "o", "-", "i", "n", "t", "e", "r", "a", "c", "t", "i", "v", "e">>
K_quiet == <<"q", "u", "i", "e", "t">>
K_yes == <<"y", "e", "s">>
S_DashYes == <<"-", "-", "y", "e", "s">>

\* Keys and values of the options, and the positional arguments, of the
\* requests that the command line is built for.
ArgvKeys == {K_no_interactive, K_quiet, K_yes, K_style}
ArgvValues == {Bool(TRUE), Bool(FALSE), Txt(S_css), Txt(<<>>), Num(0), Undefined}
ArgvExtras == {<<>>, <<Txt(S_css)>>, <<Txt(S_DashYes)>>, <<Txt(S_css), Txt(S_DashYes)>>}

\* Options objects of no, one and two entries, keys unique.
ArgvOptions ==
  {<<>>}
    \cup {<<Entry(k, v)>> : k \in ArgvKeys, v \in ArgvValues}
    \cup {<<Entry(ks[1], v1), Entry(ks[2], v2)>> :
            ks \in {p \in ArgvKeys \X ArgvKeys : p[1] # p[2]},
            v1 \in ArgvValues, v2 \in ArgvValues \ {Num(0), Txt(<<>>)}}

InitArgv ==
  /\ Quiet
  /\ \E options \in ArgvOptions, extras \in ArgvExtras,
        appName \in {Txt(<<>>), Txt(S_myapp)} :
       probe = [kind |-> "argv",
                req |-> [BaseRequest EXCEPT
                           !.appName = appName,
                           !.args = ArgsOf(extras),
                           !.options = OptionsOf(options)],
                applied |-> FALSE, args |-> <<>>, options |-> <<>>,
                yoArgs |-> <<>>]

\* The handler's mergedOptions and allPositionalArgs, then the command line
\* that runYeomanGenerator builds from them in its first temporary directory.
ApplyArgv ==
  /\ probe.kind = "argv"
  /\ ~probe.applied
  /\ probe' = [probe EXCEPT
                 !.applied = TRUE,
                 !.args = allPositionalArgs(probe.req),
                 !.options = mergedOptions(probe.req),
                 !.yoArgs = yoArgs(1, probe.req.generatorName.s,
                                   allPositionalArgs(probe.req),
                                   mergedOptions(probe.req))]
  /\ UNCHANGED <<build, persistentGeneratorDir, disk, files, made, processCwd,
                 calls, inv>>

NextArgv == ApplyArgv

SpecArgv == InitArgv /\ [][NextArgv]_vars

\* How often a string stands in a sequence of strings.
Count(seq, s) == Cardinality({j \in 1..Len(seq) : seq[j] = s})

\* The flags that the specification lists (all of nonInteractiveFlags but
\* --skip-prompts).
ListedFlags ==
  {nonInteractiveFlags[k] : k \in 1..Len(nonInteractiveFlags)}
    \ {<<"-", "-", "s", "k", "i", "p", "-", "p", "r", "o", "m", "p", "t", "s">>}

\* C12 as stated: whatever the request, the command line holds each listed
\* non-interactive flag exactly once.
FlagsExactlyOnce ==
  probe.applied =>
    \A flag \in ListedFlags : Count(probe.yoArgs, flag) = 1

\* C12: the command line holds each non-interactive flag at least once; a
\* flag that the options or the positional arguments already put there is
\* not appended, so it stands exactly once unless the positional arguments
\* hold it, and never more than once beside those.
FlagsAppendedOnce ==
  probe.applied =>
    \A k \in 1..Len(nonInteractiveFlags) :
      /\ Count(probe.yoArgs, nonInteractiveFlags[k]) >= 1
      /\ Count(probe.yoArgs, nonInteractiveFlags[k])
           <= Count(probe.args, nonInteractiveFlags[k]) + 1
      /\ Count(probe.args, nonInteractiveFlags[k]) = 0
           => Count(probe.yoArgs, nonInteractiveFlags[k]) = 1

\* The options gave no-interactive: true beside another option, and the
\* command line holds --no-interactive once, before the appended flags.
FlagFromOptionsKept ==
  /\ probe.applied
  /\ Len(probe.req.options.entries) = 2
  /\ Lookup(probe.req.options.entries, K_no_interactive) = Bool(TRUE)
  /\ Count(probe.yoArgs, <<"-", "-">> \o K_no_interactive) = 1
  /\ probe.yoArgs[Len(probe.yoArgs)] # <<"-", "-">> \o K_no_interactive

(***************************************************************************)
(* cleanOutput applied alone to outputs                                    *)
(***************************************************************************)
\* The character U+001B.
ESC == "ESC"

ColorCodeRe == <<Lit(<<ESC, "[">>), Plus("d"), Lit(<<"m">>)>>

CursorVisibilityRe ==
  <<Lit(<<ESC, "[", "?", "2", "5">>),
    Alt(<< <<Lit(<<"h">>)>>, <<Lit(<<"l">>)>> >>)>>

CursorMovementRe == <<Lit(<<ESC, "[">>), Plus("d"), One("upper")>>

ManyNewlinesRe == <<Lit(<<"\n", "\n", "\n">>), Star("nl")>>

\* The six replacements of cleanOutput, in their order.
cleanOutput(output) ==
  ReplaceAll(
    ReplaceAll(
      ReplaceAll(
        ReplaceAll(
          ReplaceAll(
            ReplaceAll(output, ColorCodeRe, <<>>, 1),
            CursorVisibilityRe, <<>>, 1),
          CursorMovementRe, <<>>, 1),
        <<Lit(<<"\r", "\n">>)>>, <<"\n">>, 1),
      <<Lit(<<"\r">>)>>, <<"\n">>, 1),
    ManyNewlinesRe, <<"\n", "\n">>, 1)

\* What the outputs are put together from: the start and the ends of escape
\* sequences, line ends and a letter.
CleanPieces ==
  << <<ESC, "[">>, <<"0", "m">>, <<"2", "A">>, <<"?", "2", "5", "h">>,
     <<"\r">>, <<"\n">>, <<"x">> >>

MaxCleanPieces == 4

RECURSIVE JoinedClean(_, _)
JoinedClean(picks, k) ==
  IF k > Len(picks)
    THEN <<>>
    ELSE CleanPieces[picks[k]] \o JoinedClean(picks, k + 1)

InitClean ==
  /\ Quiet
  /\ \E picks \in UNION {[1..n -> 1..Len(CleanPieces)] : n \in 0..MaxCleanPieces} :
       probe = [kind |-> "clean", output |-> JoinedClean(picks, 1),
                applied |-> 0, cleaned |-> <<>>, again |-> <<>>]

\* cleanOutput applied to the output, and then to what it returned.
ApplyClean ==
  /\ probe.kind = "clean"
  /\ probe.applied = 0
  /\ probe' = [probe EXCEPT !.applied = 1,
                            !.cleaned = cleanOutput(probe.output)]
  /\ UNCHANGED <<build, persistentGeneratorDir, disk, files, made, processCwd,
                 calls, inv>>

ApplyCleanAgain ==
  /\ probe.kind = "clean"
  /\ probe.applied = 1
  /\ probe' = [probe EXCEPT !.applied = 2,
                            !.again = cleanOutput(probe.cleaned)]
  /\ UNCHANGED <<build, persistentGeneratorDir, disk, files, made, processCwd,
                 calls, inv>>

NextClean == ApplyClean \/ ApplyCleanAgain

SpecClean == InitClean /\ [][NextClean]_vars

\* C13: cleanOutput applied to what cleanOutput returned changes nothing.
CleanOutputIdempotent ==
  probe.applied = 2 => probe.again = probe.cleaned

(***************************************************************************)
(* The parser and the requirement of options applied alone to help texts   *)
(***************************************************************************)
K_force == <<"f", "o", "r", "c", "e">>
K_port == <<"p", "o", "r", "t">>
S_name == <<"n", "a", "m", "e">>

\* The parts that the help texts are put together from. Usage lines: none,
\* one placeholder, the same placeholder twice.
ParseUsages ==
  << <<>>,
     <<"U", "s", "a", "g", "e", ":", "\n", " ", " ", "y", "o", " ", "a", "p",
     "p", " ", "[", "<", "n", "a", "m", "e", ">", "]", "\n", "\n">>,
     <<"U", "s", "a", "g", "e", ":", "\n", " ", " ", "y", "o", " ", "a", "p",
     "p", " ", "[", "<", "n", "a", "m", "e", ">", "]", " ", "[", "<", "n",
     "a", "m", "e", ">", "]", "\n", "\n">> >>

\* Lines of the Options section: none, three options of the deny-list (with
\* markers of a requirement), an option with a default (with and without the
\* word Optional) and an option with choices.
ParseOptionLines ==
  << <<>>,
     <<" ", " ", "-", "-", "f", "o", "r", "c", "e", " ", " ", "#", " ", "(",
     "R", "e", "q", "u", "i", "r", "e", "d", ")", " ", "f", "o", "r", "c",
     "e", "\n">>,
     <<" ", " ", "-", "-", "q", "u", "i", "e", "t", " ", " ", "#", " ", "P",
     "l", "e", "a", "s", "e", " ", "e", "n", "t", "e", "r", "?", " ", "[",
     "a", "|", "b", "]", " ", "r", "e", "q", "u", "i", "r", "e", "d", "\n">>,
     <<" ", " ", "-", "y", ",", " ", "-", "-", "y", "e", "s", " ", " ", "#",
     " ", "Y", "e", "s", "\n">>,
     <<" ", " ", "-", "-", "p", "o", "r", "t", " ", " ", "#", " ", "P", "o",
     "r", "t", " ", " ", "D", "e", "f", "a", "u", "l", "t", ":", " ", "8",
     "0", "\n">>,
     <<" ", " ", "-", "-", "p", "o", "r", "t", " ", " ", "#", " ", "O", "p",
     "t", "i", "o", "n", "a", "l", " ", "p", "o", "r", "t", " ", " ", "D",
     "e", "f", "a", "u", "l", "t", ":", " ", "8", "0", "\n">>,
     <<" ", " ", "-", "-", "s", "t", "y", "l", "e", " ", " ", "#", " ", "S",
     "t", "y", "l", "e", " ", "[", "c", "s", "s", "|", "s", "a", "s", "s",
     "]", "\n">> >>

\* The Arguments section: none, or the argument of the usage line.
ParseArguments ==
  << <<>>,
     <<"\n", "A", "r", "g", "u", "m", "e", "n", "t", "s", ":", "\n", " ", " ",
     "n", "a", "m", "e", " ", " ", "#", " ", "N", "a", "m", "e", "\n">> >>

\* The Prompts section: none, or one that names four options.
ParsePrompts ==
  << <<>>,
     <<"\n", "P", "r", "o", "m", "p", "t", "s", ":", " ", "f", "o", "r", "c",
     "e", " ", "q", "u", "i", "e", "t", " ", "y", "e", "s", " ", "p", "o",
     "r", "t", "\n">> >>

ParseHelp(u, a, b, g, p) ==
  ParseUsages[u] \o S_Options \o <<"\n">> \o ParseOptionLines[a]
    \o ParseOptionLines[b] \o ParseArguments[g] \o ParsePrompts[p]

InitParse ==
  /\ Quiet
  /\ \E u \in 1..Len(ParseUsages), a \in 1..Len(ParseOptionLines),
        b \in 2..Len(ParseOptionLines), g \in 1..Len(ParseArguments),
        p \in 1..Len(ParsePrompts) :
       probe = [kind |-> "parse", helpOutput |-> ParseHelp(u, a, b, g, p),
                applied |-> FALSE, helpInfo |-> [args |-> <<>>, options |-> <<>>],
                options |-> <<>>, check |-> NoCheck]

\* parseGeneratorHelp(helpOutput), then what getGeneratorOptions reports for
\* its options and what checkRequiredArguments(helpInfo, [], {}) reports.
ApplyParse ==
  /\ probe.kind = "parse"
  /\ ~probe.applied
  /\ LET Parsed(helpInfo) ==
           [probe EXCEPT
              !.applied = TRUE,
              !.helpInfo = helpInfo,
              !.options = OptionsResult(helpInfo).options,
              !.check = checkRequiredArguments(helpInfo, <<>>, <<>>)]
     IN probe' = Parsed(parseGeneratorHelp(probe.helpOutput))
  /\ UNCHANGED <<build, persistentGeneratorDir, disk, files, made, processCwd,
                 calls, inv>>

NextParse == ApplyParse

SpecParse == InitParse /\ [][NextParse]_vars

\* The names of the entries of a sequence of arguments, options or reports.
Names(entries) == [k \in 1..Len(entries) |-> entries[k].name]

\* Is name among the options that the requirement check reported missing?
ReportedMissing(name) ==
  \E k \in 1..Len(probe.check.missingOptions) :
    probe.check.missingOptions[k].name = name

\* The names of the deny-list that the help texts above list.
DenyListedNames == {K_force, K_quiet, K_yes}

\* C14: an option whose name is on the deny-list of control flags is never
\* classified required: not by the parser, not in the options that
\* getGeneratorOptions returns, not by the requirement check, whatever its
\* description says and also when a Prompts section names it.
DenyListedNeverRequired ==
  probe.applied =>
    \A k \in 1..Len(probe.helpInfo.options) :
      probe.helpInfo.options[k].name \in DenyListedNames =>
        /\ ~probe.helpInfo.options[k].required
        /\ ~probe.options[k].required
        /\ ~ReportedMissing(probe.helpInfo.options[k].name)

\* The parser read --force with the marker (Required) and --quiet with a
\* question, choices and the word required, below a Prompts section that
\* names both, and getGeneratorOptions reports neither as required.
DenyListedWithMarkers ==
  /\ probe.applied
  /\ Names(probe.helpInfo.options) = <<K_force, K_quiet>>
  /\ Includes(probe.helpInfo.options[1].description, S_ParenRequired)
  /\ Includes(probe.helpInfo.options[2].description, S_required)
  /\ Search(probe.helpOutput, PromptRe, 1).ok
  /\ \A k \in 1..2 : ~probe.options[k].required

\* C15 as stated: an option whose help entry has a default marker is never
\* classified required: not by the parser, not in the options that
\* getGeneratorOptions returns, not by the requirement check.
DefaultNeverRequired ==
  probe.applied =>
    \A k \in 1..Len(probe.helpInfo.options) :
      (\/ probe.helpInfo.options[k].hasDefault
       \/ Includes(probe.helpInfo.options[k].description, S_Default)) =>
        /\ ~probe.helpInfo.options[k].required
        /\ ~probe.options[k].required
        /\ ~ReportedMissing(probe.helpInfo.options[k].name)

\* C16 as stated: in the parser's result no two arguments share a name and
\* no two options share a name.
NamesUnique ==
  probe.applied =>
    /\ \A j, k \in 1..Len(probe.helpInfo.args) :
         probe.helpInfo.args[j].name = probe.helpInfo.args[k].name => j = k
    /\ \A j, k \in 1..Len(probe.helpInfo.options) :
         probe.helpInfo.options[j].name = probe.helpInfo.options[k].name => j = k

Holds(rec) == rec.genDir # NoDir /\ rec.pc \notin {"idle", "done"}

\* C18: with no persistent directory, invocations in progress at the same
\* time have different generator directories, and the directory of an
\* invocation in progress is on disk: no other invocation's cleanup has
\* removed it.
WorkspacesDistinct ==
  persistentGeneratorDir = NoDir =>
    \A i \in Inv :
      Holds(inv[i]) =>
        /\ inv[i].genDir \in disk
        /\ \A j \in Inv \ {i} :
             Holds(inv[j]) => inv[j].genDir # inv[i].genDir

\* An invocation that got its directory after another one has ended and its
\* directory is removed, while the other still works in the earlier one.
LaterWorkspaceReleasedFirst ==
  /\ persistentGeneratorDir = NoDir
  /\ \E i, j \in Inv :
       /\ inv[i].pc = "done"
       /\ inv[i].rm = "removed"
       /\ Holds(inv[j])
       /\ inv[j].genDir < inv[i].genDir
       /\ inv[j].genDir \in disk

\* C19: cleanup never raises: an invocation whose cleanup has run, removal
\* failed or not, answers with the result (or the error) that it held when
\* cleanup began.
ReleaseKeepsResult ==
  \A i \in Inv :
    (inv[i].pc = "done" /\ inv[i].rm # "none") =>
      inv[i].response = inv[i].pending

\* The removal failed after a successful run, and the invocation returned
\* the success.
RemovalFailedAfterSuccess ==
  \E i \in Inv :
    /\ inv[i].pc = "done"
    /\ inv[i].rm = "failed"
    /\ inv[i].response.kind = "returned"
    /\ inv[i].response.result.success
    /\ inv[i].genDir \in disk

(***************************************************************************)
(* The existence checks before the manifest and the install                *)
(***************************************************************************)
\* Invocation i starts npm in this step.
StartsInstall(i) == "npm" \notin inv[i].procs /\ "npm" \in inv'[i].procs

\* Invocation i goes on to the help process in this step without an install.
SkipsInstall(i) ==
  /\ "help" \notin inv[i].procs
  /\ "help" \in inv'[i].procs
  /\ "npm" \notin inv'[i].procs

\* Invocation i starts to write the manifest in this step.
StartsManifest(i) ==
  /\ inv[i].pc \notin {"writeManifest", "ix_writeManifest"}
  /\ inv'[i].pc \in {"writeManifest", "ix_writeManifest"}

\* The manifest that invocation i wrote lands in this step.
ManifestLands(i) ==
  /\ inv[i].pc = "writeManifest"
  /\ inv'[i].pc \in {"install", "help"}

\* Are yo and the generator of the invocation both in its directory?
BothInstalled(rec, f) == {"yo", rec.gen} \subseteq f[rec.genDir]

\* C20 as stated: npm is started exactly when yo or the generator is absent
\* at the check, and the manifest is written only when there is none (a
\* manifest that is there is left as it is).
ManifestAndInstallOnlyWhenAbsent ==
  [][\A i \in Inv :
       /\ StartsInstall(i) => ~BothInstalled(inv'[i], files')
       /\ SkipsInstall(i) => BothInstalled(inv'[i], files')
       /\ ManifestLands(i) => "package.json" \notin files[inv[i].genDir]]_vars

\* C20: npm is started exactly when yo or the generator is absent at the
\* check, and an invocation begins to write the manifest only when there is
\* none at its check.
InstallOnlyWhenAbsent ==
  [][\A i \in Inv :
       /\ StartsInstall(i) => ~BothInstalled(inv'[i], files')
       /\ SkipsInstall(i) => BothInstalled(inv'[i], files')
       /\ StartsManifest(i) => "package.json" \notin files'[inv'[i].genDir]]_vars

\* In the persistent directory one invocation has run the install and
\* another has gone on to the help process without one.
InstallSkipped ==
  \E i, j \in Inv :
    /\ inv[i].genDir = PersistDir
    /\ inv[j].genDir = PersistDir
    /\ inv[i].install = "ok"
    /\ "help" \in inv[j].procs
    /\ "npm" \notin inv[j].procs

(***************************************************************************)
(* The requirement check applied alone to supplied arguments and options   *)
(***************************************************************************)
K_app_name == <<"a", "p", "p", "-", "n", "a", "m", "e">>
K_debug == <<"d", "e", "b", "u", "g">>

\* A help text of three arguments (the first and the third required) and of
\* three options: --app-name has a name of likelyRequiredOptionPatterns,
\* --port is marked Optional, --debug has a description of two plain words.
HelpRequire ==
  <<"U", "s", "a", "g", "e", ":", "\n", " ", " ", "y", "o", " ", "l", "i",
    "b", " ", "[", "<", "f", "i", "r", "s", "t", ">", "]", " ", "[", "<",
    "s", "e", "c", "o", "n", "d", ">", "]", " ", "[", "<", "t", "h", "i",
    "r", "d", ">", "]", "\n", "\n", "O", "p", "t", "i", "o", "n", "s", ":",
    "\n", " ", " ", "-", "-", "a", "p", "p", "-", "n", "a", "m", "e", " ",
    " ", "#", " ", "A", "p", "p", " ", "n", "a", "m", "e", "\n", " ", " ",
    "-", "-", "p", "o", "r", "t", " ", " ", "#", " ", "O", "p", "t", "i",
    "o", "n", "a", "l", " ", "p", "o", "r", "t", "\n", " ", " ", "-", "-",
    "d", "e", "b", "u", "g", " ", " ", "#", " ", "D", "e", "b", "u", "g",
    " ", "o", "u", "t", "p", "u", "t", "\n", "\n", "A", "r", "g", "u", "m",
    "e", "n", "t", "s", ":", "\n", " ", " ", "f", "i", "r", "s", "t", " ",
    " ", "#", " ", "F", "i", "r", "s", "t", " ", " ", "T", "y", "p", "e",
    ":", " ", "S", "t", "r", "i", "n", "g", " ", " ", "R", "e", "q", "u",
    "i", "r", "e", "d", ":", " ", "t", "r", "u", "e", "\n", " ", " ", "s",
    "e", "c", "o", "n", "d", " ", " ", "#", " ", "S", "e", "c", "o", "n",
    "d", " ", " ", "T", "y", "p", "e", ":", " ", "S", "t", "r", "i", "n",
    "g", " ", " ", "R", "e", "q", "u", "i", "r", "e", "d", ":", " ", "f",
    "a", "l", "s", "e", "\n", " ", " ", "t", "h", "i", "r", "d", " ", " ",
    "#", " ", "T", "h", "i", "r", "d", " ", " ", "T", "y", "p", "e", ":",
    " ", "S", "t", "r", "i", "n", "g", " ", " ", "R", "e", "q", "u", "i",
    "r", "e", "d", ":", " ", "t", "r", "u", "e", "\n">>

\* A help text whose usage line names the second argument of its Arguments
\* section only: helpInfo.args holds second before first, both required.
HelpRequireUsage ==
  <<"U", "s", "a", "g", "e", ":", "\n", " ", " ", "y", "o", " ", "l", "i",
    "b", " ", "[", "<", "s", "e", "c", "o", "n", "d", ">", "]", "\n", "\n",
    "O", "p", "t", "i", "o", "n", "s", ":", "\n", " ", " ", "-", "-", "a",
    "p", "p", "-", "n", "a", "m", "e", " ", " ", "#", " ", "A", "p", "p",
    " ", "n", "a", "m", "e", "\n", "\n", "A", "r", "g", "u", "m", "e", "n",
    "t", "s", ":", "\n", " ", " ", "f", "i", "r", "s", "t", " ", " ", "#",
    " ", "F", "i", "r", "s", "t", " ", " ", "R", "e", "q", "u", "i", "r",
    "e", "d", ":", " ", "t", "r", "u", "e", "\n", " ", " ", "s", "e", "c",
    "o", "n", "d", " ", " ", "#", " ", "S", "e", "c", "o", "n", "d", " ",
    " ", "R", "e", "q", "u", "i", "r", "e", "d", ":", " ", "t", "r", "u",
    "e", "\n">>

RequireHelpInfos ==
  {parseGeneratorHelp(HelpRequire), parseGeneratorHelp(HelpRequireUsage)}

\* Keys and values of the supplied options, and the supplied arguments.
RequireKeys == {K_app_name, S_appName, K_port}
RequireValues == {Bool(TRUE), Bool(FALSE), Txt(S_css), Txt(<<>>), Num(0)}
RequireArgs ==
  {<<>>, <<Txt(S_css)>>, <<Txt(S_css), Txt(S_sass)>>,
   <<Txt(S_css), Txt(S_sass), Txt(S_myapp)>>}

\* Options objects of no, one and two entries, keys unique.
RequireOptions ==
  {<<>>}
    \cup {<<Entry(k, v)>> : k \in RequireKeys, v \in RequireValues}
    \cup {<<Entry(ks[1], v1), Entry(ks[2], v2)>> :
            ks \in {p \in RequireKeys \X RequireKeys : p[1] # p[2]},
            v1 \in RequireValues, v2 \in RequireValues}

InitRequire ==
  /\ Quiet
  /\ \E helpInfo \in RequireHelpInfos, args \in RequireArgs,
        options \in RequireOptions :
       probe = [kind |-> "require", helpInfo |-> helpInfo, args |-> args,
                options |-> options, applied |-> FALSE, check |-> NoCheck]

\* checkRequiredArguments(helpInfo, args, options)
ApplyRequire ==
  /\ probe.kind = "require"
  /\ ~probe.applied
  /\ probe' = [probe EXCEPT
                 !.applied = TRUE,
                 !.check = checkRequiredArguments(probe.helpInfo, probe.args,
                                                  probe.options)]
  /\ UNCHANGED <<build, persistentGeneratorDir, disk, files, made, processCwd,
                 calls, inv>>

NextRequire == ApplyRequire

SpecRequire == InitRequire /\ [][NextRequire]_vars

\* Does the options object hold an entry under the key, whatever its value?
HasEntry(options, key) == \E k \in 1..Len(options) : options[k].key = key

\* C21 as stated: the requirement check reports an option missing only if the
\* option is classified required and the supplied options hold no entry under
\* its literal name nor under its camel-cased name; an option supplied with
\* any value, false, 0 and the empty string included, is not reported.
MissingOnlyIfNoEntry ==
  probe.applied =>
    \A k \in 1..Len(probe.helpInfo.options) :
      ReportedMissing(probe.helpInfo.options[k].name) =>
        /\ isOptionRequired(probe.helpInfo.options[k])
        /\ ~HasEntry(probe.options, probe.helpInfo.options[k].name)
        /\ ~HasEntry(probe.options,
                     camelCase(probe.helpInfo.options[k].name))

\* C22: the argument at position k of the help text is reported missing
\* exactly when it is required and fewer than k positional arguments were
\* supplied; missingRequired holds these arguments in the order of their
\* positions and nothing else.
MissingArgsExactly ==
  probe.applied =>
    LET args == probe.helpInfo.args
        missing == probe.check.missingRequired
        Due == {k \in 1..Len(args) :
                  args[k].required /\ Len(probe.args) < k}
    IN /\ Len(missing) = Cardinality(Due)
       /\ \A j \in 1..Len(missing) :
            \E k \in Due :
              /\ missing[j].name = args[k].name
              /\ missing[j].description = args[k].description
              /\ Cardinality({d \in Due : d < k}) = j - 1

\* One argument was supplied to a help text of three: the third is reported
\* missing, the optional second is not.
ThirdArgumentMissing ==
  /\ probe.applied
  /\ Len(probe.helpInfo.args) = 3
  /\ Len(probe.args) = 1
  /\ probe.helpInfo.args[1].required
  /\ ~probe.helpInfo.args[2].required
  /\ Len(probe.check.missingRequired) = 1
  /\ probe.check.missingRequired[1].name = probe.helpInfo.args[3].name

\* An option that none of the rules for a requirement speaks about: no
\* marker of required or optional in its description, no default, a name that
\* is not on the deny-list and holds none of likelyRequiredOptionPatterns, no
\* question mark and no enter, specify or provide, no bracketed list.
Unmarked(option) ==
  /\ ~Includes(option.description, S_ParenRequired)
  /\ ~Includes(option.description, S_BracketRequired)
  /\ ~Includes(option.description, S_required)
  /\ ~Includes(option.description, S_Optional)
  /\ ~option.hasDefault
  /\ ~Includes(option.description, S_Default)
  /\ option.name \notin nonRequiredOptions
  /\ \A k \in 1..Len(likelyRequiredOptionPatterns) :
       ~Includes(toLowerCase(option.name), likelyRequiredOptionPatterns[k])
  /\ ~Includes(option.description, <<"?">>)
  /\ ~Search(option.description, PromptVerbRe, 1).ok
  /\ ~extractEnumValues(option.description).found

\* C23 as stated: an option that matches none of the rules for a requirement
\* is classified optional (by the parser and by isOptionRequired), and the
\* requirement check does not report it when it is not supplied.
UnmarkedIsOptional ==
  probe.applied =>
    \A k \in 1..Len(probe.helpInfo.options) :
      Unmarked(probe.helpInfo.options[k]) =>
        /\ ~probe.helpInfo.options[k].required
        /\ ~isOptionRequired(probe.helpInfo.options[k])
        /\ ~ReportedMissing(probe.helpInfo.options[k].name)

(***************************************************************************)
(* Escape sequences in what cleanOutput returns                            *)
(***************************************************************************)
\* C24 as stated: what cleanOutput returns holds no colour sequence
\* (ESC [ digits m), no cursor-visibility sequence (ESC [ ? 2 5 h or l) and
\* no cursor-movement sequence (ESC [ digits, an upper-case letter), also
\* when such sequences are adjacent or nested in the input.
NoEscapeSequenceLeft ==
  probe.applied >= 1 =>
    /\ ~Search(probe.cleaned, ColorCodeRe, 1).ok
    /\ ~Search(probe.cleaned, CursorVisibilityRe, 1).ok
    /\ ~Search(probe.cleaned, CursorMovementRe, 1).ok

(***************************************************************************)
(* The options that the handler passes to runYeomanGenerator               *)
(***************************************************************************)
\* C28: in the options that the yeoman_generate handler passes on, each of
\* the seven forced options is true, whatever the caller gave for it; every
\* other key of the caller is there with the caller's value, and there is no
\* further key.
ForcedOptionsTrue ==
  probe.applied =>
    LET given == probe.req.options.entries
        Forced == {ForcedOptions[k] : k \in 1..Len(ForcedOptions)}
    IN /\ \A key \in Forced :
            /\ HasEntry(probe.options, key)
            /\ Lookup(probe.options, key) = Bool(TRUE)
       /\ \A j \in 1..Len(given) :
            given[j].key \notin Forced =>
              /\ HasEntry(probe.options, given[j].key)
              /\ Lookup(probe.options, given[j].key) = given[j].value
       /\ \A j \in 1..Len(probe.options) :
            \/ probe.options[j].key \in Forced
            \/ HasEntry(given, probe.options[j].key)
       /\ \A i, j \in 1..Len(probe.options) :
            probe.options[i].key = probe.options[j].key => i = j

\* The caller gave quiet: false and style: 'css'; the handler passes on
\* quiet: true and style: 'css'.
QuietFalseOverwritten ==
  /\ probe.applied
  /\ Lookup(probe.req.options.entries, K_quiet) = Bool(FALSE)
  /\ Lookup(probe.req.options.entries, K_style) = Txt(S_css)
  /\ Lookup(probe.options, K_quiet) = Bool(TRUE)
  /\ Lookup(probe.options, K_style) = Txt(S_css)

(***************************************************************************)
(* parseGeneratorHelp applied alone to arbitrary texts                     *)
(***************************************************************************)
\* What the texts are put together from: a usage line, the headers of the
\* sections, lines of an option and of an argument, and fragments of them.
TotalPieces ==
  << <<"U", "s", "a", "g", "e", ":", "\n", " ", " ", "y", "o", " ", "a",
       "p", "p", " ", "[", "<", "a", ">", "]", " ", "[", "o", "p", "t",
       "i", "o", "n", "s", "]", "\n">>,
     <<"O", "p", "t", "i", "o", "n", "s", ":", "\n">>,
     <<"A", "r", "g", "u", "m", "e", "n", "t", "s", ":", "\n">>,
     <<" ", " ", "-", "-", "p", " ", " ", "#", " ", "d", "\n">>,
     <<" ", " ", "a", " ", " ", "#", " ", "d", "\n">>,
     <<"\n">>,
     <<"#">>,
     <<" ", "-", "-", " ">>,
     <<" ", " ", "-", "p", ",", " ", "-", "-", "p", "o", "r", "t", " ",
       " ", "#", " ", "P", "o", "r", "t", " ", " ", "D", "e", "f", "a",
       "u", "l", "t", ":", " ", "8", "0">>,
     <<"P", "r", "o", "m", "p", "t", "s", ":", " ", "p", "\n">>,
     <<" ", "a", " ">> >>

MaxTotalPieces == 3

RECURSIVE JoinedTotal(_, _)
JoinedTotal(picks, k) ==
  IF k > Len(picks)
    THEN <<>>
    ELSE TotalPieces[picks[k]] \o JoinedTotal(picks, k + 1)

InitTotal ==
  /\ Quiet
  /\ \E picks \in UNION {[1..n -> 1..Len(TotalPieces)] : n \in 0..MaxTotalPieces} :
       probe = [kind |-> "total", helpOutput |-> JoinedTotal(picks, 1),
                applied |-> FALSE,
                helpInfo |-> [args |-> <<>>, options |-> <<>>]]

\* parseGeneratorHelp(helpOutput)
ApplyTotal ==
  /\ probe.kind = "total"
  /\ ~probe.applied
  /\ probe' = [probe EXCEPT !.applied = TRUE,
                            !.helpInfo = parseGeneratorHelp(probe.helpOutput)]
  /\ UNCHANGED <<build, persistentGeneratorDir, disk, files, made, processCwd,
                 calls, inv>>

NextTotal == ApplyTotal

SpecTotal == InitTotal /\ [][NextTotal]_vars

\* The text that a section expression hands to its loop (<<>> when the help
\* text has no such section).
SectionOf(helpOutput, sectionRe) ==
  LET Text(m) == IF m.ok THEN Group(helpOutput, m, 1) ELSE <<>>
  IN Text(Search(helpOutput, sectionRe, 1))

\* Does every match of the entry expression in the section, from whatever
\* position the search starts, end after the position where it starts?
Consumes(section, entryRe) ==
  \A from \in 1..(Len(section) + 1) :
    LET Longer(m) == m.ok => (m.pos > m.start /\ m.start >= from)
    IN Longer(Search(section, entryRe, from))

\* C26: the parser returns a HelpInfo for every text: each iteration of the
\* loop over the Arguments section and of the loop over the Options section
\* consumes at least one character, so neither loop has more iterations than
\* its section has characters; args is empty when the text has neither a
\* usage line nor an Arguments section, options is empty when it has no
\* Options section.
ParserTotal ==
  probe.applied =>
    /\ Consumes(SectionOf(probe.helpOutput, ArgsSectionRe), ArgRe)
    /\ Consumes(SectionOf(probe.helpOutput, OptionsSectionRe), OptionRe)
    /\ Len(probe.helpInfo.options)
         <= Len(SectionOf(probe.helpOutput, OptionsSectionRe))
    /\ (~Search(probe.helpOutput, UsageRe, 1).ok
         => Len(probe.helpInfo.args)
              <= Len(SectionOf(probe.helpOutput, ArgsSectionRe)))
    /\ (~Includes(probe.helpOutput, S_Options)
         => probe.helpInfo.options = <<>>)
    /\ (~Search(probe.helpOutput, UsageRe, 1).ok
          /\ ~Includes(probe.helpOutput, S_Arguments)
         => probe.helpInfo.args = <<>>)

\* A text with lines of an option and of an argument below the header of
\* the Arguments section and with no Options section: the loop over the
\* Arguments section ran twice, and options is empty.
OptionLineWithoutSection ==
  /\ probe.applied
  /\ ~Includes(probe.helpOutput, S_Options)
  /\ Includes(probe.helpOutput, S_Arguments)
  /\ Search(probe.helpOutput, OptionRe, 1).ok
  /\ Len(probe.helpInfo.args) = 2
  /\ probe.helpInfo.options = <<>>

(***************************************************************************)
(* The second look at the required arguments                               *)
(***************************************************************************)
\* C29: no run invocation ends with the result 'Required arguments missing' of
\* the second look at the required arguments: when the help text has a
\* required argument and no positional argument was supplied, the
\* invocation has ended before with 'Missing required arguments'.
SecondCheckUnreachable ==
  \A i \in Inv :
    /\ Outcome(inv[i]).result.error # "Required arguments missing"
    /\ (/\ inv[i].tool = "yeoman_generate"
        /\ inv[i].help = "ok"
        /\ RequiredArgs(HelpInfos[inv[i].helpId]) # <<>>
        /\ Len(inv[i].checkedArgs) = 0)
         => /\ Outcome(inv[i]).result.error = "Missing required arguments"
            /\ "yo" \notin inv[i].procs

\* An invocation with no positional argument whose help text has a required
\* argument has ended with 'Missing required arguments'.
EndedAtFirstCheck ==
  \E i \in Inv :
    /\ inv[i].pc = "done"
    /\ inv[i].tool = "yeoman_generate"
    /\ inv[i].help = "ok"
    /\ RequiredArgs(HelpInfos[inv[i].helpId]) # <<>>
    /\ Len(inv[i].checkedArgs) = 0
    /\ Outcome(inv[i]).result.error = "Missing required arguments"

(***************************************************************************)
(* State of the server process                                             *)
(***************************************************************************)
\* C30 as stated: no step of an invocation changes the state of the server
\* process: the path of the persistent directory stays what the start of
\* the server made it, and the current working directory of the process
\* stays what it was.
ProcessStateUnchanged ==
  [][/\ persistentGeneratorDir' = persistentGeneratorDir
     /\ processCwd' = processCwd]_vars

(***************************************************************************)
(* Order of the subprocesses and of the release within one invocation      *)
(***************************************************************************)
\* Has every subprocess that the invocation spawned exited? (The install has
\* an outcome, the help process has closed, the generator process has closed
\* or could not be spawned.)
AllExited(rec) ==
  /\ "npm" \in rec.procs => rec.install # "none"
  /\ "help" \in rec.procs => rec.help # "none"
  /\ "yo" \in rec.procs => rec.exit.kind # "none"

\* C27: within one invocation the help process is spawned only when the
\* install, if there was one, has ended well; the generator process is
\* spawned only when the help process has exited; a directory is removed
\* only when the invocation that works in it holds its result and every
\* subprocess it spawned has exited.
SubprocessOrder ==
  [][\A i \in Inv :
       /\ "help" \in inv'[i].procs \ inv[i].procs =>
            /\ inv[i].pc # "help"
            /\ "npm" \in inv'[i].procs => inv'[i].install = "ok"
            /\ "yo" \notin inv'[i].procs
       /\ "yo" \in inv'[i].procs \ inv[i].procs =>
            /\ "help" \in inv[i].procs
            /\ inv'[i].help # "none"
       /\ (inv[i].pc \notin {"idle", "done"} /\ inv[i].genDir \in disk \ disk') =>
            /\ AllExited(inv[i])
            /\ inv[i].pending.kind # "none"]_vars

\* An invocation in a temporary directory has run the install, the help
\* process and the generator process, and its directory is removed.
RanAllThenReleased ==
  \E i \in Inv :
    /\ inv[i].pc = "done"
    /\ inv[i].procs = {"npm", "help", "yo"}
    /\ inv[i].exit.kind = "close"
    /\ inv[i].rm = "removed"
    /\ inv[i].genDir \notin disk

(***************************************************************************)
(* Termination of invocations                                              *)
(***************************************************************************)
\* A step of the invocation i that ends one of its waits other than the wait
\* for the help process: an answer of the file system or of the registry,
\* the end of the install, of the generator process or of the run inside
\* the server, the response to the client.
Settle(i) ==
  \/ \E ok \in BOOLEAN : SearchDone(i, ok)
  \/ \E ok \in BOOLEAN : MkdtempDone(i, ok)
  \/ \E ok \in BOOLEAN : MkdirCwdDone(i, ok)
  \/ \E ok \in BOOLEAN : WriteManifestDone(i, ok)
  \/ \E ok \in BOOLEAN, left \in {{}, {"yo"}} : InstallDone(i, ok, left)
  \/ \E zero \in BOOLEAN, output \in RunOutputs, yoRcExists \in BOOLEAN :
       YoExit(i, zero, output, yoRcExists)
  \/ YoError(i)
  \/ \E outcome \in {"key", "no key", "unreadable"} : ReadYoRcDone(i, outcome)
  \/ \E ok \in BOOLEAN : CleanupDone(i, ok)
  \/ Respond(i)
  \/ \E ok \in BOOLEAN : IndexMkdtempDone(i, ok)
  \/ \E ok \in BOOLEAN : IndexWriteManifestDone(i, ok)
  \/ \E ok \in BOOLEAN, chdirOk \in BOOLEAN : IndexInstallDone(i, ok, chdirOk)
  \/ \E ok \in BOOLEAN : IndexLookupDone(i, ok)
  \/ \E ok \in BOOLEAN : IndexRunDone(i, ok)

\* One request of each kind that starts an operation: a run, a look at the
\* options of a generator, a search.
LiveRequests ==
  {BaseRequest,
   Request("yeoman_get_generator_options", Str("app"), Undefined, Undefined,
           Undefined, NoArgs, NoOptions, Undefined, Undefined),
   Request("yeoman_search_templates", Undefined, Undefined, Undefined,
           Undefined, NoArgs, NoOptions, Str("react"), Undefined)}

NextLive ==
  \/ \E i \in Inv, req \in LiveRequests : Call(i, req)
  \/ \E i \in Inv, zero \in BOOLEAN, h \in 1..Len(HelpTexts) : HelpExit(i, zero, h)
  \/ \E i \in Inv : Settle(i)

\* The server when every awaited operation answers and every subprocess
\* exits: no invocation stays for ever where it waits. For the wait for the
\* help process, which only HelpExit(i, ..) ends and which every
\* HelpExit(i, ..) ends, weak fairness of that action is written as what it
\* comes to: the invocation is again and again not in that wait.
FairSpec ==
  /\ Init
  /\ [][NextLive]_vars
  /\ \A i \in Inv : WF_vars(Settle(i))
  /\ \A i \in Inv : []<>(inv[i].pc # "help")

\* An invocation whose generator directory is one that cleanup removes.
Disposable(rec) == rec.genDir # NoDir /\ ~cleanupSkips(rec.genDir)

\* C25: when every subprocess exits and every awaited operation answers,
\* an invocation that has started comes to the point where its response is
\* there, and by then cleanup has run on its disposable directory (the
\* directory is removed, or the removal has failed and is logged).
EveryInvocationReturns ==
  \A i \in Inv :
    (inv[i].pc # "idle") ~>
      /\ inv[i].pc = "done"
      /\ inv[i].response.kind # "none"
      /\ Disposable(inv[i]) =>
           /\ inv[i].rm # "none"
           /\ inv[i].rm = "removed" => inv[i].genDir \notin disk

\* A run in a temporary directory has waited for the install, for the help
\* process and for the generator process, its directory is removed and its
\* response, a success, is there.
ReturnedAfterEveryWait ==
  \E i \in Inv :
    /\ inv[i].pc = "done"
    /\ Disposable(inv[i])
    /\ {"npm", "help", "yo"} \subseteq inv[i].procs
    /\ inv[i].exit.zero
    /\ inv[i].rm = "removed"
    /\ inv[i].response.kind = "returned"
    /\ inv[i].response.result.success

=============================================================================
